---- MODULE Spec2Model ----
(***************************************************************************)
(* State-machine model of the ARXML tree coordinator (ArxmlTreeProvider),  *)
(* its document cache, ARPATH index and streaming parser.                  *)
(*                                                                         *)
(* Strings that the code inspects character by character (ARPATHs, names)  *)
(* are sequences of one-character strings.  Tag names are atomic strings   *)
(* with an explicit upper-casing table.                                    *)
(***************************************************************************)
EXTENDS Integers, Sequences, FiniteSets, TLC

(***************************************************************************)
(* Bounds of the model                                                     *)
(***************************************************************************)
MaxVersion == 2
MaxGen == 2
MaxTasks == 2
MaxTimers == 2
MaxTokens == 8
MaxDepth == 3

\* longest path string typed in
MaxPathLen == 4

\* times a path is put through normalizeArpath
MaxPasses == 2

\* longest lookup query
MaxQueryLen == 3

\* calls of searchWorkspace in one run
MaxSearches == 3

\* distinct filters searched for
MaxFilters == 21

\* calls of addSearch with a filter searched for before
MaxRepeats == 1

\* calls of addSearch made while an earlier call still awaits getHistory
MaxOverlaps == 2

(***************************************************************************)
(* Generic sequence helpers                                                *)
(***************************************************************************)
Range(s) == {s[i] : i \in DOMAIN s}

Last(s) == s[Len(s)]

Front(s) == SubSeq(s, 1, Len(s) - 1)

RECURSIVE Flatten(_)
\* the concatenation of the sequences of ss, computed by halves
Flatten(ss) ==
  IF ss = <<>> THEN <<>>
  ELSE IF Len(ss) = 1 THEN ss[1]
  ELSE Flatten(SubSeq(ss, 1, Len(ss) \div 2)) \o Flatten(SubSeq(ss, Len(ss) \div 2 + 1, Len(ss)))

RECURSIVE AddUnique(_, _)
\* JavaScript Set insertion: keeps first insertion order, ignores repeats
AddUnique(s, xs) ==
  IF xs = <<>> THEN s
  ELSE AddUnique(IF Head(xs) \in Range(s) THEN s ELSE Append(s, Head(xs)), Tail(xs))

Min2(a, b) == IF a < b THEN a ELSE b

(***************************************************************************)
(* Character strings                                                       *)
(***************************************************************************)
SLASH == "/"

WhiteSpace == {" ", "\t", "\n", "\r"}

ControlChars == {"\r", "\n", "\t"}

RECURSIVE TrimStart(_)
TrimStart(s) == IF s # <<>> /\ Head(s) \in WhiteSpace THEN TrimStart(Tail(s)) ELSE s

RECURSIVE TrimEnd(_)
TrimEnd(s) == IF s # <<>> /\ Last(s) \in WhiteSpace THEN TrimEnd(Front(s)) ELSE s

\* String.prototype.trim
Trim(s) == TrimEnd(TrimStart(s))

RECURSIVE StripControl(_)
\* replace(/[\r\n\t]/g, '')
StripControl(s) ==
  IF s = <<>> THEN <<>>
  ELSE IF Head(s) \in ControlChars THEN StripControl(Tail(s))
       ELSE <<Head(s)>> \o StripControl(Tail(s))

RECURSIVE CollapseSlashes(_)
\* replace(/\/+/g, '/')
CollapseSlashes(s) ==
  IF Len(s) < 2 THEN s
  ELSE IF s[1] = SLASH /\ s[2] = SLASH THEN CollapseSlashes(Tail(s))
       ELSE <<Head(s)>> \o CollapseSlashes(Tail(s))

StartsWith(s, p) == Len(p) <= Len(s) /\ SubSeq(s, 1, Len(p)) = p

EndsWith(s, p) == Len(p) <= Len(s) /\ SubSeq(s, Len(s) - Len(p) + 1, Len(s)) = p

\* String.prototype.includes
Includes(s, p) == \E i \in 0..(Len(s) - Len(p)) : SubSeq(s, i + 1, i + Len(p)) = p

RECURSIVE SplitSlash(_, _)
\* split('/'): acc is the segment being read
SplitSlash(s, acc) ==
  IF s = <<>> THEN <<acc>>
  ELSE IF Head(s) = SLASH THEN <<acc>> \o SplitSlash(Tail(s), <<>>)
       ELSE SplitSlash(Tail(s), Append(acc, Head(s)))

\* split('/').filter(Boolean)
Parts(s) == SelectSeq(SplitSlash(s, <<>>), LAMBDA seg : seg # <<>>)

RECURSIVE JoinSlash(_)
\* join('/')
JoinSlash(segs) ==
  IF segs = <<>> THEN <<>>
  ELSE IF Len(segs) = 1 THEN segs[1]
       ELSE segs[1] \o <<SLASH>> \o JoinSlash(Tail(segs))

LowerChar(c) ==
  CASE c = "P" -> "p"
    [] c = "Q" -> "q"
    [] c = "C" -> "c"
    [] OTHER -> c

\* String.prototype.toLowerCase
ToLowerCase(s) == [i \in DOMAIN s |-> LowerChar(s[i])]

(***************************************************************************)
(* Path normalization and index variants                                   *)
(***************************************************************************)
normalizeArpath(arpath) ==
  IF arpath = <<>> THEN <<>>
  ELSE LET n1 == CollapseSlashes(StripControl(Trim(arpath)))
           n2 == IF StartsWith(n1, <<SLASH>>) THEN n1 ELSE <<SLASH>> \o n1
       IN IF EndsWith(n2, <<SLASH>>) /\ Len(n2) > 1 THEN Front(n2) ELSE n2

buildArpathVariants(arpath) ==
  LET normalized == normalizeArpath(arpath)
      noLeading == IF StartsWith(normalized, <<SLASH>>) THEN Tail(normalized) ELSE normalized
      parts == Parts(normalized)
      withoutRoot == <<SLASH>> \o JoinSlash(Tail(parts))
  IN AddUnique(<<>>, <<normalized, noLeading>>
                     \o (IF Len(parts) > 1 THEN <<withoutRoot, Tail(withoutRoot)>> ELSE <<>>))

(***************************************************************************)
(* Markup text and the streaming parser (arxmlParser.ts)                   *)
(*                                                                         *)
(* A text is the sequence of events the SAX tokenizer reports for it:      *)
(*   [t |-> "open", tag, uuid]  [t |-> "text", v]  [t |-> "close"]         *)
(*   [t |-> "bad"]   markup that strict SAX reports through onerror and    *)
(*                   non-strict SAX tolerates silently                     *)
(*   [t |-> "cut"]   the input ends inside markup: SAX reports             *)
(*                   "Unexpected end" through onerror in either mode       *)
(* shortName = <<>> stands for both undefined and '' : the code treats the *)
(* two alike (?? '' before concatenation, falsy test before node creation).*)
(***************************************************************************)
SHORT_NAME_TAG == "SHORT-NAME"

NoUuid == "none"

InvalidXmlChars == {"\f"}

\* value.replace(INVALID_XML_CHARS, ' ') applied to the character data
sanitizeXmlText(text) ==
  [i \in DOMAIN text |->
     IF text[i].t = "text"
     THEN [text[i] EXCEPT !.v = [j \in DOMAIN text[i].v |->
                                    IF text[i].v[j] \in InvalidXmlChars THEN " " ELSE text[i].v[j]]]
     ELSE text[i]]

\* !text || !text.trim()
IsBlankText(text) ==
  \A i \in DOMAIN text : text[i].t = "text" /\ Trim(text[i].v) = <<>>

\* non-strict SAX reports tag names upper-cased
TagUpper(tag) == IF tag = "short-name" THEN "SHORT-NAME" ELSE tag

SaxTagName(tag, strict) == IF strict THEN tag ELSE TagUpper(tag)

ParserStart ==
  [elementStack |-> <<>>,
   arNodeStack |-> <<1>>,
   arena |-> <<[name |-> <<SLASH>>, arpath |-> <<>>, element |-> "AUTOSAR",
                uuid |-> NoUuid, parent |-> 0, children |-> <<>>]>>,
   parseError |-> FALSE]

\* variant that makes every path from the name alone
createNodeForFrame_RootPath(ps, fi) ==
  LET frame == ps.elementStack[fi]
      trimmed == Trim(frame.shortName)
      parentId == Last(ps.arNodeStack)
      newId == Len(ps.arena) + 1
      node == [name |-> trimmed,
               arpath |-> <<SLASH>> \o trimmed,
               element |-> frame.tag, uuid |-> frame.uuid,
               parent |-> parentId, children |-> <<>>]
  IN IF frame.node # 0 \/ frame.shortName = <<>> THEN ps
     ELSE IF trimmed = <<>> THEN ps
     ELSE [ps EXCEPT !.arena = Append([@ EXCEPT ![parentId].children = Append(@, newId)], node),
                     !.elementStack[fi].node = newId,
                     !.arNodeStack = Append(@, newId)]

\* fi: position of the frame in elementStack
createNodeForFrame(ps, fi) ==
  LET frame == ps.elementStack[fi]
      trimmed == Trim(frame.shortName)
      parentId == Last(ps.arNodeStack)
      newId == Len(ps.arena) + 1
      node == [name |-> trimmed,
               arpath |-> ps.arena[parentId].arpath \o <<SLASH>> \o trimmed,
               element |-> frame.tag, uuid |-> frame.uuid,
               parent |-> parentId, children |-> <<>>]
  IN IF frame.node # 0 \/ frame.shortName = <<>> THEN ps
     ELSE IF trimmed = <<>> THEN ps
     ELSE [ps EXCEPT !.arena = Append([@ EXCEPT ![parentId].children = Append(@, newId)], node),
                     !.elementStack[fi].node = newId,
                     !.arNodeStack = Append(@, newId)]

onerror(ps) == [ps EXCEPT !.parseError = TRUE]

onopentag(ps, tag, uuid) ==
  [ps EXCEPT !.elementStack = Append(@, [tag |-> tag, uuid |-> uuid, shortName |-> <<>>, node |-> 0])]

ontext(ps, value, nameTags, nameTextTags) ==
  LET n == Len(ps.elementStack)
  IN IF n = 0 THEN ps
     ELSE IF ps.elementStack[n].tag \in nameTags
          THEN [ps EXCEPT !.elementStack[n].shortName = @ \o value]
     ELSE IF nameTextTags # {} /\ ps.elementStack[n].tag \in nameTextTags
               /\ n > 1 /\ ps.elementStack[n - 1].tag \in nameTags
          THEN [ps EXCEPT !.elementStack[n - 1].shortName = @ \o value]
     ELSE ps

onclosetag(ps, nameTags) ==
  LET n == Len(ps.elementStack)
      frame == ps.elementStack[n]
      popped == [ps EXCEPT !.elementStack = Front(@)]
  IN IF n = 0 THEN ps
     ELSE IF frame.tag \in nameTags
          THEN IF n > 1
               THEN createNodeForFrame(
                      [popped EXCEPT !.elementStack[n - 1].shortName = Trim(frame.shortName)], n - 1)
               ELSE popped
     ELSE IF frame.node # 0 /\ Last(ps.arNodeStack) = frame.node
          THEN [popped EXCEPT !.arNodeStack = Front(@)]
     ELSE popped

SaxEvent(ps, tok, strict, nameTags, nameTextTags) ==
  CASE tok.t = "open" -> onopentag(ps, SaxTagName(tok.tag, strict), tok.uuid)
    [] tok.t = "text" -> ontext(ps, tok.v, nameTags, nameTextTags)
    [] tok.t = "close" -> onclosetag(ps, nameTags)
    [] tok.t = "bad" -> IF strict THEN onerror(ps) ELSE ps
    [] tok.t = "cut" -> onerror(ps)

RECURSIVE streamParse(_, _, _, _, _)
streamParse(ps, text, strict, nameTags, nameTextTags) ==
  IF text = <<>> THEN ps
  ELSE streamParse(SaxEvent(ps, Head(text), strict, nameTags, nameTextTags),
                   Tail(text), strict, nameTags, nameTextTags)

\* the parent link of a node without parent
NoOid == [uri |-> "none", gen |-> 0, i |-> 0, copy |-> 0]

RECURSIVE BuildNode(_, _, _, _)
\* the object graph rooted at arena node i; oid is the identity of the object:
\* the parse that allocated it, its allocation order, and how many times it was copied;
\* parent is the identity of the object the parent link points to
BuildNode(arena, i, uri, gen) ==
  [name |-> arena[i].name, arpath |-> arena[i].arpath, element |-> arena[i].element,
   file |-> uri, uuid |-> arena[i].uuid, oid |-> [uri |-> uri, gen |-> gen, i |-> i, copy |-> 0],
   parent |-> IF arena[i].parent = 0 THEN NoOid
              ELSE [uri |-> uri, gen |-> gen, i |-> arena[i].parent, copy |-> 0],
   children |-> [k \in DOMAIN arena[i].children |-> BuildNode(arena, arena[i].children[k], uri, gen)]]

\* parser.close() at the end of the input: strict SAX reports elements left
\* open ("Unclosed root tag") through onerror
parserClose(ps, strict) == IF strict /\ ps.elementStack # <<>> THEN onerror(ps) ELSE ps

\* options: [strict, nameTags (sequence), nameTextTags (sequence)]
parseArxmlDocument(text, uri, options, gen) ==
  IF IsBlankText(text) THEN [kind |-> "absent"]
  ELSE LET final == parserClose(streamParse(ParserStart, sanitizeXmlText(text), options.strict,
                                            Range(options.nameTags), Range(options.nameTextTags)),
                                options.strict)
       IN IF final.parseError THEN [kind |-> "error"]
          ELSE [kind |-> "root", root |-> BuildNode(final.arena, 1, uri, gen)]

(***************************************************************************)
(* Documents of the host editor                                            *)
(***************************************************************************)
Open(tag) == [t |-> "open", tag |-> tag, uuid |-> NoUuid]

Close == [t |-> "close"]

Text(v) == [t |-> "text", v |-> v]

Named(tag, nameTag, name, inner) ==
  <<Open(tag), Open(nameTag), Text(name), Close>> \o inner \o <<Close>>

\* <AUTOSAR><PKG><SHORT-NAME>P</SHORT-NAME><COMP><SHORT-NAME>C</SHORT-NAME></COMP></PKG></AUTOSAR>
TextPC == <<Open("AUTOSAR")>> \o Named("PKG", "SHORT-NAME", <<"P">>, Named("COMP", "SHORT-NAME", <<"C">>, <<>>)) \o <<Close>>

\* <AUTOSAR><PKG><SHORT-NAME>Q</SHORT-NAME><COMP><short-name>C</short-name></COMP></PKG></AUTOSAR>
TextQc == <<Open("AUTOSAR")>> \o Named("PKG", "SHORT-NAME", <<"Q">>, Named("COMP", "short-name", <<"C">>, <<>>)) \o <<Close>>

\* <AUTOSAR><PKG><SHORT-NAME>P</SHORT-NAME></PKG></X></AUTOSAR>  (unmatched closing tag)
TextBad == <<Open("AUTOSAR")>> \o Named("PKG", "SHORT-NAME", <<"P">>, <<>>) \o <<[t |-> "bad"], Close>>

TextEmpty == <<Text(<<" ">>)>>

\* <AUTOSAR><PKG><SHORT-NAME>P</SHORT-NAME>
\*   <COMP><SHORT-NAME>PC</SHORT-NAME></COMP>
\*   <COMP><SHORT-NAME>C</SHORT-NAME><PORT><SHORT-NAME>Q</SHORT-NAME></PORT></COMP>
\* </PKG></AUTOSAR>
TextDeep ==
  <<Open("AUTOSAR")>>
  \o Named("PKG", "SHORT-NAME", <<"P">>,
            Named("COMP", "SHORT-NAME", <<"P", "C">>, <<>>)
            \o Named("COMP", "SHORT-NAME", <<"C">>, Named("PORT", "SHORT-NAME", <<"Q">>, <<>>)))
  \o <<Close>>

\* <AUTOSAR><PKG><SHORT-NAME>C</SHORT-NAME></PKG>
\*   <PKG><SHORT-NAME>P</SHORT-NAME><COMP><SHORT-NAME>C</SHORT-NAME></COMP></PKG></AUTOSAR>
TextCThenPC ==
  <<Open("AUTOSAR")>>
  \o Named("PKG", "SHORT-NAME", <<"C">>, <<>>)
  \o Named("PKG", "SHORT-NAME", <<"P">>, Named("COMP", "SHORT-NAME", <<"C">>, <<>>))
  \o <<Close>>

\* the same two packages in the other order
TextPCThenC ==
  <<Open("AUTOSAR")>>
  \o Named("PKG", "SHORT-NAME", <<"P">>, Named("COMP", "SHORT-NAME", <<"C">>, <<>>))
  \o Named("PKG", "SHORT-NAME", <<"C">>, <<>>)
  \o <<Close>>

\* <AUTOSAR><PKG><SHORT-NAME>P</SHORT-NAME><COMP><SHORT-NAME>PC</SHORT-NAME></COMP></PKG></AUTOSAR>
TextPPC == <<Open("AUTOSAR")>> \o Named("PKG", "SHORT-NAME", <<"P">>, Named("COMP", "SHORT-NAME", <<"P", "C">>, <<>>)) \o <<Close>>

\* <AUTOSAR><PKG><SHORT-NAME>Q</SHORT-NAME></PKG></AUTOSAR>
TextQ == <<Open("AUTOSAR")>> \o Named("PKG", "SHORT-NAME", <<"Q">>, <<>>) \o <<Close>>

Texts == <<TextPC, TextQc, TextBad, TextEmpty, TextDeep, TextCThenPC, TextPCThenC, TextPPC, TextQ>>

\* the texts an edit chooses from
TextIds == {1, 2, 3, 4}

\* the texts a document may hold when it is opened
OpenTextIds == DOMAIN Texts

(***************************************************************************)
(* Custom views and parse options (treeProvider.ts, customViewStore.ts)    *)
(*                                                                         *)
(* A view is a CustomViewConfig; has is the set of its optional fields     *)
(* that are defined.  NoView stands for undefined.                         *)
(***************************************************************************)
NoView ==
  [id |-> 0, has |-> {}, arpathPrefix |-> <<>>, elementTags |-> <<>>, textContains |-> <<>>,
   uuidFilter |-> "none", nameTags |-> <<>>, nameTextTags |-> <<>>, parseMode |-> "strict",
   sort |-> "none"]

\* view 1 as first defined: lenient parsing, only COMP elements
ViewLenient ==
  [NoView EXCEPT !.id = 1, !.has = {"parseMode", "elementTags"},
                 !.parseMode = "lenient", !.elementTags = <<"COMP">>]

\* view 1 after its definition was edited: lower-case name tag, sorted by name
ViewLower ==
  [NoView EXCEPT !.id = 1, !.has = {"nameTags", "sort"},
                 !.nameTags = <<"short-name">>, !.sort = "name"]

Views == {ViewLenient, ViewLower}

ViewIds == {v.id : v \in Views}

resolveParseMode(view) ==
  IF view.id # 0 /\ "parseMode" \in view.has THEN view.parseMode ELSE "strict"

resolveParseOptions(view) ==
  [parseMode |-> resolveParseMode(view),
   nameTags |-> IF view.id # 0 /\ "nameTags" \in view.has THEN view.nameTags ELSE <<SHORT_NAME_TAG>>,
   nameTextTags |-> IF view.id # 0 /\ "nameTextTags" \in view.has THEN view.nameTextTags ELSE <<>>]

\* order of tag names by UTF-16 code units (Array.prototype.sort default)
TagRank(tag) ==
  CASE tag = "LONG-NAME" -> 1
    [] tag = "SHORT-NAME" -> 2
    [] tag = "short-name" -> 3
    [] OTHER -> 4

\* Array.prototype.sort (stable); Less(a, b) is the strict order
StableSort(s, Less(_, _)) ==
  LET RECURSIVE Ins(_, _)
      Ins(t, x) ==
        IF t = <<>> THEN <<x>>
        ELSE IF Less(x, Head(t)) THEN <<x>> \o t
             ELSE <<Head(t)>> \o Ins(Tail(t), x)
      RECURSIVE Srt(_)
      Srt(t) == IF t = <<>> THEN <<>> ELSE Ins(Srt(Front(t)), Last(t))
  IN Srt(s)

sameList(left, right) ==
  IF Len(left) # Len(right) THEN FALSE
  ELSE LET TagLess(a, b) == TagRank(a) < TagRank(b)
           leftNorm == StableSort([i \in DOMAIN left |-> TagUpper(left[i])], TagLess)
           rightNorm == StableSort([i \in DOMAIN right |-> TagUpper(right[i])], TagLess)
       IN \A i \in DOMAIN leftNorm : leftNorm[i] = rightNorm[i]

(***************************************************************************)
(* Tree helpers                                                            *)
(***************************************************************************)
Reverse(s) == [i \in DOMAIN s |-> s[Len(s) + 1 - i]]

RECURSIVE StackOrder(_)
\* order in which "stack = [root]; pop; push(...children)" visits the nodes
StackOrder(node) ==
  <<node>> \o Flatten([i \in DOMAIN node.children |-> StackOrder(Reverse(node.children)[i])])

RECURSIVE getDescendantCount_WithRoot(_)
\* variant that counts the node itself as well
getDescendantCount_WithRoot(node) ==
  1 + (LET RECURSIVE Sum(_)
           Sum(cs) == IF cs = <<>> THEN 0 ELSE getDescendantCount_WithRoot(Head(cs)) + Sum(Tail(cs))
       IN Sum(node.children))

RECURSIVE getDescendantCount(_)
getDescendantCount(node) ==
  Len(node.children)
  + (LET RECURSIVE Sum(_)
         Sum(cs) == IF cs = <<>> THEN 0 ELSE getDescendantCount(Head(cs)) + Sum(Tail(cs))
     IN Sum(node.children))

\* what the index keeps of a node object: its identity and the fields lookups read
NodeRef(node) == [oid |-> node.oid, arpath |-> node.arpath, file |-> node.file]

\* path.basename(document.uri.fsPath)
BaseName(uri) == <<uri>>

(***************************************************************************)
(* parsedDocuments: a Map in insertion order                               *)
(***************************************************************************)
MapHas(m, uri) == \E i \in DOMAIN m : m[i].uri = uri

MapGet(m, uri) == m[CHOOSE i \in DOMAIN m : m[i].uri = uri]

\* Map.set: an existing key keeps its position
MapSet(m, entry) ==
  IF MapHas(m, entry.uri)
  THEN [i \in DOMAIN m |-> IF m[i].uri = entry.uri THEN entry ELSE m[i]]
  ELSE Append(m, entry)

MapDelete(m, uri) == SelectSeq(m, LAMBDA e : e.uri # uri)

(***************************************************************************)
(* The ARPATH index                                                        *)
(***************************************************************************)
IndexGet(index, key) == IF key \in DOMAIN index THEN index[key] ELSE <<>>

\* pairs: sequence of <<variant, node>> in insertion order; the index after
\* each pair was pushed in turn
IndexPairs(index, pairs) ==
  [k \in (DOMAIN index) \cup {pairs[i][1] : i \in DOMAIN pairs} |->
     LET pushed == SelectSeq(pairs, LAMBDA pair : pair[1] = k)
     IN IndexGet(index, k) \o [j \in DOMAIN pushed |-> pushed[j][2]]]

VariantPairs(root) ==
  LET nodes == StackOrder(root)
  IN Flatten([i \in DOMAIN nodes |->
        LET variants == buildArpathVariants(nodes[i].arpath)
        IN [j \in DOMAIN variants |-> <<variants[j], NodeRef(nodes[i])>>]])

indexTree(root, index) == IndexPairs(index, VariantPairs(root))

RECURSIVE IndexAll(_, _)
IndexAll(m, index) ==
  IF m = <<>> THEN index ELSE IndexAll(Tail(m), indexTree(Head(m).root, index))

rebuildArpathIndex(s) == [s EXCEPT !.arpathIndex = IndexAll(s.parsedDocuments, <<>>)]

\* variant that deletes every recorded key outright instead of filtering its list
removeDocumentFromIndex_DropKeys(s, uri) ==
  IF uri \notin DOMAIN s.docArpathKeys THEN s
  ELSE LET keys == s.docArpathKeys[uri]
       IN [s EXCEPT !.arpathIndex = [k \in (DOMAIN s.arpathIndex) \ keys |-> s.arpathIndex[k]],
                    !.docArpathKeys = [u \in (DOMAIN s.docArpathKeys) \ {uri} |-> s.docArpathKeys[u]]]

removeDocumentFromIndex(s, uri) ==
  IF uri \notin DOMAIN s.docArpathKeys THEN s
  ELSE LET keys == s.docArpathKeys[uri]
           filtered(k) == SelectSeq(s.arpathIndex[k], LAMBDA node : node.file # uri)
           kept == {k \in DOMAIN s.arpathIndex : k \notin keys \/ filtered(k) # <<>>}
       IN [s EXCEPT !.arpathIndex = [k \in kept |-> IF k \in keys THEN filtered(k) ELSE s.arpathIndex[k]],
                    !.docArpathKeys = [u \in (DOMAIN s.docArpathKeys) \ {uri} |-> s.docArpathKeys[u]]]

\* the loop of indexDocument over the <<variant, node>> pairs of the tree, and
\* the final docArpathKeys.set(uri, keys)
indexDocumentPairs(s, uri, pairs) ==
  [s EXCEPT !.arpathIndex = IndexPairs(s.arpathIndex, pairs),
            !.docArpathKeys = (uri :> {pairs[i][1] : i \in DOMAIN pairs}) @@ s.docArpathKeys]

indexDocument(s, uri) ==
  IF ~MapHas(s.parsedDocuments, uri) THEN s
  ELSE indexDocumentPairs(s, uri, VariantPairs(MapGet(s.parsedDocuments, uri).root))

(***************************************************************************)
(* View and filter projection                                              *)
(* An optional node is a sequence of length 0 (undefined) or 1.            *)
(***************************************************************************)
CopyOf(node) == [node.oid EXCEPT !.copy = @ + 1]

\* variant that copies the nodes but leaves their parent links as they were
reparentTree_KeepParent(node, parent) ==
  LET RECURSIVE Copy(_)
      Copy(n) == [n EXCEPT !.oid = CopyOf(n),
                           !.children = [i \in DOMAIN n.children |-> Copy(n.children[i])]]
  IN Copy(node)

RECURSIVE reparentTree(_, _)
\* a new object for the node and for each node below it; parent is the
\* identity of the object the new node's parent link points to
reparentTree(node, parent) ==
  [node EXCEPT !.oid = CopyOf(node),
               !.parent = parent,
               !.children = [i \in DOMAIN node.children |->
                               reparentTree(node.children[i], CopyOf(node))]]

matchesCustomView(node, config) ==
  /\ ("arpathPrefix" \in config.has /\ config.arpathPrefix # <<>>)
       => StartsWith(normalizeArpath(node.arpath), normalizeArpath(config.arpathPrefix))
  /\ ("elementTags" \in config.has /\ Len(config.elementTags) > 0)
       => node.element \in Range(config.elementTags)
  /\ ("textContains" \in config.has /\ config.textContains # <<>>)
       => Includes(ToLowerCase(node.name), ToLowerCase(config.textContains))
  /\ ("uuidFilter" \in config.has /\ config.uuidFilter = "present") => node.uuid # NoUuid
  /\ ("uuidFilter" \in config.has /\ config.uuidFilter = "missing") => node.uuid = NoUuid

CharRank(c) ==
  CASE c = SLASH -> 1
    [] c = "a" -> 2
    [] c = "b" -> 3
    [] c = "C" -> 4
    [] c = "P" -> 5
    [] c = "Q" -> 6
    [] OTHER -> 0

RECURSIVE StrLess(_, _)
\* a.localeCompare(b) < 0
StrLess(a, b) ==
  IF b = <<>> THEN FALSE
  ELSE IF a = <<>> THEN TRUE
  ELSE IF CharRank(Head(a)) # CharRank(Head(b)) THEN CharRank(Head(a)) < CharRank(Head(b))
  ELSE StrLess(Tail(a), Tail(b))

sortChildren(children, sort) ==
  LET ByName(a, b) == StrLess(a.name, b.name)
      ByArpath(a, b) == StrLess(a.arpath, b.arpath)
  IN IF sort = "name" THEN StableSort(children, ByName)
     ELSE IF sort = "arpath" THEN StableSort(children, ByArpath)
     ELSE children

RECURSIVE buildFilteredTree(_, _, _)
buildFilteredTree(root, config, parent) ==
  LET children == Flatten([i \in DOMAIN root.children |->
                             buildFilteredTree(root.children[i], config, NoOid)])
      sortedChildren == sortChildren(children, IF "sort" \in config.has THEN config.sort ELSE "none")
  IN IF ~matchesCustomView(root, config) /\ Len(children) = 0 THEN <<>>
     ELSE <<[root EXCEPT !.oid = CopyOf(root),
                         !.parent = parent,
                         !.children = [i \in DOMAIN sortedChildren |->
                                         reparentTree(sortedChildren[i], CopyOf(root))]]>>

RECURSIVE GlobMatch(_, _)
\* globToRegex(pattern).test(value) on lower-cased operands
GlobMatch(value, pattern) ==
  IF pattern = <<>> THEN value = <<>>
  ELSE IF Head(pattern) = "*"
       THEN GlobMatch(value, Tail(pattern)) \/ (value # <<>> /\ GlobMatch(Tail(value), pattern))
  ELSE IF value = <<>> THEN FALSE
  ELSE IF Head(pattern) = "?" \/ Head(pattern) = Head(value) THEN GlobMatch(Tail(value), Tail(pattern))
  ELSE FALSE

\* regex mode is modelled for patterns without metacharacters, where
\* new RegExp(trimmed, 'i').test(value) is case-insensitive containment
matchesPattern(value, pattern, mode) ==
  IF pattern = <<>> THEN TRUE
  ELSE IF mode = "contains" THEN Includes(ToLowerCase(value), ToLowerCase(pattern))
  ELSE IF mode = "regex"
       THEN Trim(pattern) # <<>> /\ Includes(ToLowerCase(value), ToLowerCase(Trim(pattern)))
  ELSE GlobMatch(ToLowerCase(value), ToLowerCase(pattern))

\* filter: [mode, nameMode, arpathMode, elementMode, name, arpath, element];
\* a field mode of "none" is undefined, an empty pattern is undefined
resolveFilterMode(filter, field) ==
  IF field = "name" /\ filter.nameMode # "none" THEN filter.nameMode
  ELSE IF field = "arpath" /\ filter.arpathMode # "none" THEN filter.arpathMode
  ELSE IF field = "element" /\ filter.elementMode # "none" THEN filter.elementMode
  ELSE filter.mode

\* the element kind is an atomic tag name: as a string it is one symbol long
matchesTreeFilter(node, filter) ==
  /\ filter.name # <<>> => matchesPattern(node.name, filter.name, resolveFilterMode(filter, "name"))
  /\ filter.arpath # <<>> => matchesPattern(node.arpath, filter.arpath, resolveFilterMode(filter, "arpath"))
  /\ filter.element # <<>> => matchesPattern(<<node.element>>, filter.element, resolveFilterMode(filter, "element"))

isEmptyFilter(filter) == filter.name = <<>> /\ filter.arpath = <<>> /\ filter.element = <<>>

RECURSIVE buildFilteredTreeWithFilter_MatchOnly(_, _, _)
\* variant that keeps a node only if the node itself matches
buildFilteredTreeWithFilter_MatchOnly(root, filter, parent) ==
  LET children == Flatten([i \in DOMAIN root.children |->
                             buildFilteredTreeWithFilter_MatchOnly(root.children[i], filter, NoOid)])
  IN IF ~matchesTreeFilter(root, filter) THEN <<>>
     ELSE <<[root EXCEPT !.oid = CopyOf(root),
                         !.parent = parent,
                         !.children = [i \in DOMAIN children |->
                                         reparentTree(children[i], CopyOf(root))]]>>

RECURSIVE buildFilteredTreeWithFilter_Reversed(_, _, _)
\* variant that hands out the kept children last to first
buildFilteredTreeWithFilter_Reversed(root, filter, parent) ==
  LET children == Flatten([i \in DOMAIN root.children |->
                             buildFilteredTreeWithFilter_Reversed(Reverse(root.children)[i], filter, NoOid)])
  IN IF ~matchesTreeFilter(root, filter) /\ Len(children) = 0 THEN <<>>
     ELSE <<[root EXCEPT !.oid = CopyOf(root),
                         !.parent = parent,
                         !.children = [i \in DOMAIN children |->
                                         reparentTree(children[i], CopyOf(root))]]>>

RECURSIVE buildFilteredTreeWithFilter(_, _, _)
buildFilteredTreeWithFilter(root, filter, parent) ==
  LET children == Flatten([i \in DOMAIN root.children |->
                             buildFilteredTreeWithFilter(root.children[i], filter, NoOid)])
  IN IF ~matchesTreeFilter(root, filter) /\ Len(children) = 0 THEN <<>>
     ELSE <<[root EXCEPT !.oid = CopyOf(root),
                         !.parent = parent,
                         !.children = [i \in DOMAIN children |->
                                         reparentTree(children[i], CopyOf(root))]]>>

\* filters of the tree view: undefined (NoFilter), empty, and by name, by
\* element and by path in the three modes
NoFilter ==
  [mode |-> "none", nameMode |-> "none", arpathMode |-> "none", elementMode |-> "none",
   name |-> <<>>, arpath |-> <<>>, element |-> <<>>]

EmptyFilter == [NoFilter EXCEPT !.mode = "contains"]

FilterNameQ == [NoFilter EXCEPT !.mode = "contains", !.name = <<"q">>]

FilterElementComp == [NoFilter EXCEPT !.mode = "glob", !.element = <<"COMP">>]

FilterPathC == [NoFilter EXCEPT !.mode = "contains", !.arpathMode = "regex", !.arpath = <<"/", "C">>]

FilterNone == [NoFilter EXCEPT !.mode = "glob", !.name = <<"?", "?", "?">>]

Filters == {EmptyFilter, FilterNameQ, FilterElementComp, FilterPathC, FilterNone}

\* variant that shows the cached root itself when nothing is left of the tree
createEmptyRoot_Share(root) == root

createEmptyRoot(root) == [root EXCEPT !.oid = CopyOf(root), !.parent = NoOid, !.children = <<>>]

MapRemoveKey(f, k) == [x \in (DOMAIN f) \ {k} |-> f[x]]

\* the optional tree after the filter step: "filter ? buildFilteredTreeWithFilter(base ?? root, filter) : base"
filterStep(base, root, hasFilter, filter) ==
  IF hasFilter
  THEN buildFilteredTreeWithFilter(IF base # <<>> THEN base[1] ELSE root, filter, NoOid)
  ELSE base

\* variant that stores nothing when the projection is empty
setFilteredRoot_DropEmpty(s, uri, filtered, root) ==
  [s EXCEPT !.filteredRootsByUri =
     IF filtered # <<>> THEN (uri :> filtered[1]) @@ @ ELSE MapRemoveKey(@, uri)]

\* "filteredRootsByUri.set(uri, filtered ?? createEmptyRoot(root))"
setFilteredRoot(s, uri, filtered, root) ==
  [s EXCEPT !.filteredRootsByUri =
     (uri :> (IF filtered # <<>> THEN filtered[1] ELSE createEmptyRoot(root))) @@ @]

rebuildFilteredRootForDocument(s, uri) ==
  IF ~MapHas(s.parsedDocuments, uri)
  THEN [s EXCEPT !.filteredRootsByUri = MapRemoveKey(@, uri)]
  ELSE IF s.customViewByUri[uri].id = 0 /\ uri \notin DOMAIN s.filterByUri
  THEN [s EXCEPT !.filteredRootsByUri = MapRemoveKey(@, uri)]
  ELSE setFilteredRoot(s, uri,
         filterStep(IF s.customViewByUri[uri].id # 0
                    THEN buildFilteredTree(MapGet(s.parsedDocuments, uri).root,
                                           s.customViewByUri[uri], NoOid)
                    ELSE <<MapGet(s.parsedDocuments, uri).root>>,
                    MapGet(s.parsedDocuments, uri).root,
                    uri \in DOMAIN s.filterByUri,
                    IF uri \in DOMAIN s.filterByUri THEN s.filterByUri[uri] ELSE <<>>),
         MapGet(s.parsedDocuments, uri).root)

(***************************************************************************)
(* State of the host editor and of the coordinator (ArxmlTreeProvider)     *)
(***************************************************************************)
Uris == {"a", "b"}

\* order of vscode.workspace.textDocuments
UriOrder == <<"a", "b">>

NoDoc == "none"

RefreshModes == {"onChange", "onSave", "manual"}

LARGE_TREE_THRESHOLD == 1000

\* defaults of the arxmlTree.debounceDelay and arxmlTree.adaptiveDebounce settings
DebounceDelay == 200

AdaptiveDebounce == TRUE

VARIABLES
  docs,               \* host: uri -> [open, version, text]
  activeEditor,       \* host: document of the active editor, or NoDoc
  refreshMode,        \* host: arxmlTree.refreshMode
  arxmlDocument,      \* tracked document, or NoDoc
  parsedDocuments,    \* cache, in Map insertion order
  refreshTimer,       \* handle of the debounce timer, 0 = undefined
  timers,             \* host: armed timers, [h, delay]
  parsePromise,       \* TRUE while rebuildTree's batch promise is set
  pendingRefresh,
  arpathIndex,        \* key -> sequence of node references
  docArpathKeys,      \* uri -> set of keys
  customViewByUri,
  filteredRootsByUri,
  filterByUri,
  tasks,              \* suspended asynchronous calls, by slot
  waiters,            \* slots awaiting parsePromise, in order of arrival
  nextGen,            \* uri -> number of parses started (object allocation)
  processed,          \* history: uris that went through deindex/index in the last step
  decisions,          \* history: skip/parse decisions parseDocuments took in the last step
  viewDone,           \* history: uris whose view operation completed in the last step
  burst,              \* history: scheduleRefresh calls since a timer last fired (counted up to 2)
  parser,             \* one call of parseArxmlDocument: options, input read so far, SAX handler state
  query,              \* a path string: as typed, and as normalizeArpath returned it
  search,             \* CrossFileSearchProvider: isSearching, abort controllers, calls of searchWorkspace
  bookmarks,          \* BookmarkTreeProvider: the list in memory, the list in the memento
  history,            \* SearchHistoryStore: the memento value, calls of addSearch
  optimized           \* OptimizedTreeProvider: children cache, chunks being loaded, filter timer

vars == <<docs, activeEditor, refreshMode, arxmlDocument, parsedDocuments, refreshTimer, timers,
          parsePromise, pendingRefresh, arpathIndex, docArpathKeys, customViewByUri,
          filteredRootsByUri, filterByUri, tasks, waiters, nextGen, processed, decisions, viewDone,
          burst, parser, query, search, bookmarks, history, optimized>>

\* the variables of the coordinator and of the host editor
coordinator ==
  <<docs, activeEditor, refreshMode, arxmlDocument, parsedDocuments, refreshTimer, timers,
    parsePromise, pendingRefresh, arpathIndex, docArpathKeys, customViewByUri,
    filteredRootsByUri, filterByUri, tasks, waiters, nextGen, processed, decisions, viewDone,
    burst>>

\* the search provider, the two stores and the children cache
stores == <<search, bookmarks, history, optimized>>

\* no search was started, no controller made
SearchIdle == [isSearching |-> FALSE, last |-> 0, aborted |-> <<>>, calls |-> <<>>]

\* no bookmark kept, none stored; no call made yet for any ARPATH
BookmarksEmpty == [list |-> <<>>, stored |-> <<>>, lastCall |-> <<>>]

\* nothing stored under the history key, no call of addSearch in progress
HistoryEmpty ==
  [stored |-> 0, arrays |-> <<>>, pending |-> <<>>, made |-> 0, last |-> <<>>, fresh |-> 0,
   repeats |-> 0, overlaps |-> 0]

\* new OptimizedTreeProvider(): nothing cached, nothing loading, no timer
OptimizedIdle ==
  [filterCache |-> <<>>, loadingChunks |-> <<>>, promises |-> <<>>, filterTimer |-> "none"]

StoresIdle ==
  /\ search = SearchIdle /\ bookmarks = BookmarksEmpty /\ history = HistoryEmpty
  /\ optimized = OptimizedIdle

\* no path typed
QueryIdle == [target |-> <<>>, value |-> <<>>, passes |-> 0]

\* no call of the parser under observation
ParserIdle ==
  [status |-> "idle", options |-> [strict |-> TRUE, nameTags |-> <<>>, nameTextTags |-> <<>>],
   text |-> <<>>, ps |-> ParserStart, result |-> "none"]

Slots == 1..MaxTasks

IdleTask ==
  [phase |-> "idle", kind |-> "none", slot |-> 0, queue |-> <<>>, changed |-> <<>>,
   snapText |-> 0, snapOpts |-> resolveParseOptions(NoView), snapVersion |-> 0, gen |-> 0,
   op |-> "none", targets |-> <<>>, view |-> NoView, hadError |-> FALSE]

\* the coordinator object ("this") together with what it reads from the host;
\* ok turns FALSE when a step would exceed a bound of the model
Me ==
  [docs |-> docs, activeEditor |-> activeEditor, refreshMode |-> refreshMode,
   arxmlDocument |-> arxmlDocument, parsedDocuments |-> parsedDocuments,
   refreshTimer |-> refreshTimer, timers |-> timers, parsePromise |-> parsePromise,
   pendingRefresh |-> pendingRefresh, arpathIndex |-> arpathIndex,
   docArpathKeys |-> docArpathKeys, customViewByUri |-> customViewByUri,
   filteredRootsByUri |-> filteredRootsByUri, filterByUri |-> filterByUri,
   tasks |-> tasks, waiters |-> waiters, nextGen |-> nextGen,
   processed |-> {}, decisions |-> {}, viewDone |-> {}, burst |-> burst, ok |-> TRUE]

CommitCoordinator(s) ==
  /\ s.ok
  /\ docs' = s.docs
  /\ activeEditor' = s.activeEditor
  /\ refreshMode' = s.refreshMode
  /\ arxmlDocument' = s.arxmlDocument
  /\ parsedDocuments' = s.parsedDocuments
  /\ refreshTimer' = s.refreshTimer
  /\ timers' = s.timers
  /\ parsePromise' = s.parsePromise
  /\ pendingRefresh' = s.pendingRefresh
  /\ arpathIndex' = s.arpathIndex
  /\ docArpathKeys' = s.docArpathKeys
  /\ customViewByUri' = s.customViewByUri
  /\ filteredRootsByUri' = s.filteredRootsByUri
  /\ filterByUri' = s.filterByUri
  /\ tasks' = s.tasks
  /\ waiters' = s.waiters
  /\ nextGen' = s.nextGen
  /\ processed' = s.processed
  /\ decisions' = s.decisions
  /\ viewDone' = s.viewDone
  /\ burst' = s.burst

Commit(s) ==
  /\ CommitCoordinator(s)
  /\ query' = query
  /\ parser' = parser
  /\ UNCHANGED stores

FreeSlot(s) ==
  IF \E i \in Slots : s.tasks[i].phase = "idle"
  THEN CHOOSE i \in Slots : s.tasks[i].phase = "idle" /\ \A j \in Slots : s.tasks[j].phase = "idle" => i <= j
  ELSE 0

\* a call that has to suspend needs a slot to wait in
Suspend(s, t, phase) ==
  [s |-> [s EXCEPT !.ok = @ /\ t.slot # 0,
                   !.waiters = IF phase = "awaitPromise" THEN Append(@, t.slot) ELSE @],
   t |-> [t EXCEPT !.phase = phase]]

\* keep the call in its slot if it is suspended, free the slot if it returned
StoreTask(r) ==
  IF r.t.slot = 0 THEN r.s
  ELSE [r.s EXCEPT !.tasks[r.t.slot] =
          IF r.t.phase \in {"parsing", "awaitPromise"} THEN r.t ELSE IdleTask]

(***************************************************************************)
(* Debounce timer                                                          *)
(***************************************************************************)
getActiveArxmlDocument(s) == s.activeEditor

\* variant that arms a new timer without clearing the armed one
scheduleRefresh_NoClear(s, forceImmediate) ==
  LET delay == IF forceImmediate THEN 0 ELSE DebounceDelay
      free == {h \in 1..MaxTimers : \A tm \in s.timers : tm.h # h}
      handle == IF free = {} THEN 0 ELSE CHOOSE h \in free : \A g \in free : h <= g
  IN [s EXCEPT !.ok = @ /\ free # {},
               !.timers = @ \cup {[h |-> handle, delay |-> delay]},
               !.refreshTimer = handle,
               !.burst = Min2(@ + 1, 2)]

\* the delay scheduleRefresh computes from the two settings it reads
refreshDelay(s, forceImmediate, baseDelay, adaptiveDebounce) ==
  LET large == /\ adaptiveDebounce
               /\ s.arxmlDocument # NoDoc
               /\ MapHas(s.parsedDocuments, s.arxmlDocument)
               /\ getDescendantCount(MapGet(s.parsedDocuments, s.arxmlDocument).root) > LARGE_TREE_THRESHOLD
  IN IF forceImmediate THEN 0 ELSE IF large THEN baseDelay * 2 ELSE baseDelay

scheduleRefresh(s, forceImmediate) ==
  LET cleared == IF s.refreshTimer # 0 THEN {tm \in s.timers : tm.h # s.refreshTimer} ELSE s.timers
      delay == refreshDelay(s, forceImmediate, DebounceDelay, AdaptiveDebounce)
      free == {h \in 1..MaxTimers : \A tm \in cleared : tm.h # h}
      handle == IF free = {} THEN 0 ELSE CHOOSE h \in free : \A g \in free : h <= g
  IN [s EXCEPT !.ok = @ /\ free # {},
               !.timers = cleared \cup {[h |-> handle, delay |-> delay]},
               !.refreshTimer = handle,
               !.burst = Min2(@ + 1, 2)]

(***************************************************************************)
(* parseDocuments: one batch.  A batch suspends only inside                *)
(* parseArxmlDocument (streamParse yields between chunks); text and        *)
(* options are read before the suspension, document.version after it.      *)
(***************************************************************************)
\* variant that takes every document for out of date
CacheIsCurrent_Never(s, uri, options) == FALSE

CacheIsCurrent(s, uri, options) ==
  /\ MapHas(s.parsedDocuments, uri)
  /\ LET cached == MapGet(s.parsedDocuments, uri)
     IN /\ cached.version = s.docs[uri].version
        /\ cached.parseMode = options.parseMode
        /\ sameList(cached.nameTags, options.nameTags)
        /\ sameList(cached.nameTextTags, options.nameTextTags)

CachedOptions(s, uri) ==
  LET cached == MapGet(s.parsedDocuments, uri)
  IN [parseMode |-> cached.parseMode, nameTags |-> cached.nameTags, nameTextTags |-> cached.nameTextTags]

\* history record of one pass through the loop head of parseDocuments
Decision(s, uri, options, reparse) ==
  [uri |-> uri, reparse |-> reparse, hasEntry |-> MapHas(s.parsedDocuments, uri),
   sameVersion |-> MapHas(s.parsedDocuments, uri)
                   /\ MapGet(s.parsedDocuments, uri).version = s.docs[uri].version,
   cachedOpts |-> IF MapHas(s.parsedDocuments, uri) THEN CachedOptions(s, uri) ELSE options,
   options |-> options]

\* variant that drops the cache entry of a document whose parse failed
storeParseResult_DropOnError(s, uri, kind, entry) ==
  IF kind = "root" THEN [s EXCEPT !.parsedDocuments = MapSet(@, entry)]
  ELSE [s EXCEPT !.parsedDocuments = MapDelete(@, uri)]

\* what the loop body does to the cache with the outcome of a parse: a tree
\* ("root"), undefined ("absent") or a thrown error ("error", caught and shown)
storeParseResult(s, uri, kind, entry) ==
  IF kind = "root" THEN [s EXCEPT !.parsedDocuments = MapSet(@, entry)]
  ELSE IF kind = "absent" /\ MapHas(s.parsedDocuments, uri)
       THEN [s EXCEPT !.parsedDocuments = MapDelete(@, uri)]
  ELSE s

\* variant that reports only documents that got a new tree
isChangedBy_RootOnly(s, uri, kind) == kind = "root"

\* whether the loop body adds the document to changedUris
isChangedBy(s, uri, kind) ==
  kind = "root" \/ (kind = "absent" /\ MapHas(s.parsedDocuments, uri))

(***************************************************************************)
(* The large document: LargeRanges[1] packages, each with LargeRanges[2]   *)
(* packages of LargeRanges[3] components, and one more package with one    *)
(* package of LargeRanges[3] components: 1012 elements below the root.     *)
(* Its markup is not spelled out as SAX events; LargeTree is the tree the  *)
(* parser builds for it under the default parse options, every element     *)
(* being named by a SHORT-NAME child.                                      *)
(***************************************************************************)
LargeRanges == <<10, 9, 10>>

RECURSIVE LargeChildren(_, _, _, _, _)
\* the children first..last of the node with identity parent and path arpath
LargeChildren(parent, arpath, first, last, below) ==
  [k \in 1..(last - first + 1) |->
     LET leaf == below = <<>>
         name == IF leaf THEN <<"C">> ELSE <<"P">>
         oid == [parent EXCEPT !.i = @ * (LargeRanges[1] + 2) + first + k - 1]
     IN [name |-> name, arpath |-> arpath \o <<SLASH>> \o name,
         element |-> IF leaf THEN "COMP" ELSE "PKG", file |-> parent.uri, uuid |-> NoUuid,
         oid |-> oid, parent |-> parent,
         children |-> IF leaf THEN <<>>
                      ELSE LargeChildren(oid, arpath \o <<SLASH>> \o name, 1,
                                         IF first > LargeRanges[1] THEN 1 ELSE Head(below), Tail(below))]]

LargeTree(uri, gen) ==
  LET oid == [uri |-> uri, gen |-> gen, i |-> 1, copy |-> 0]
  IN [name |-> <<SLASH>>, arpath |-> <<>>, element |-> "AUTOSAR", file |-> uri, uuid |-> NoUuid,
      oid |-> oid, parent |-> NoOid,
      children |-> LargeChildren(oid, <<>>, 1, LargeRanges[1], Tail(LargeRanges))
                     \o LargeChildren(oid, <<>>, LargeRanges[1] + 1, LargeRanges[1] + 1, Tail(LargeRanges))]

\* the text of the large document
LargeTextId == Len(Texts) + 1

TextIsBlank(id) == id # LargeTextId /\ IsBlankText(Texts[id])

\* parseArxmlDocument on the text with this id
ParseOfText(id, uri, options, gen) ==
  IF id = LargeTextId THEN [kind |-> "root", root |-> LargeTree(uri, gen)]
  ELSE parseArxmlDocument(Texts[id], uri, options, gen)

RECURSIVE parseDocuments(_, _)
RECURSIVE parseDocumentsResume(_, _)
\* runs the loop from its head until a document has to be parsed (the call
\* suspends inside streamParse, phase "parsing") or the queue is empty (the
\* call returns); parseArxmlDocument returns for a blank text before it
\* reaches streamParse, so the loop goes on without giving way to an event
parseDocuments(s, t) ==
  IF t.queue = <<>> THEN [s |-> s, t |-> t]
  ELSE LET uri == Head(t.queue)
           options == resolveParseOptions(s.customViewByUri[uri])
           blank == TextIsBlank(s.docs[uri].text)
           s1 == [s EXCEPT !.decisions = @ \cup {Decision(s, uri, options, TRUE)},
                           !.nextGen[uri] = IF blank THEN @ ELSE @ + 1,
                           !.ok = @ /\ (blank \/ s.nextGen[uri] < MaxGen)]
           t1 == [t EXCEPT !.snapText = s.docs[uri].text,
                           !.snapOpts = options,
                           !.snapVersion = s.docs[uri].version,
                           !.gen = s.nextGen[uri] + 1]
       IN IF CacheIsCurrent(s, uri, options)
          THEN parseDocuments([s EXCEPT !.decisions = @ \cup {Decision(s, uri, options, FALSE)}],
                              [t EXCEPT !.queue = Tail(@)])
          ELSE IF blank THEN parseDocumentsResume(s1, t1)
          ELSE Suspend(s1, t1, "parsing")

\* the continuation after "await parseArxmlDocument(...)" up to the next suspension
parseDocumentsResume(s, t) ==
  LET uri == Head(t.queue)
      result == ParseOfText(t.snapText, uri,
                             [strict |-> t.snapOpts.parseMode = "strict",
                              nameTags |-> t.snapOpts.nameTags,
                              nameTextTags |-> t.snapOpts.nameTextTags], t.gen)
      entry == [uri |-> uri,
                root |-> [result.root EXCEPT !.name = BaseName(uri), !.parent = NoOid],
                version |-> s.docs[uri].version,
                nameTags |-> t.snapOpts.nameTags,
                nameTextTags |-> t.snapOpts.nameTextTags,
                parseMode |-> t.snapOpts.parseMode,
                snapVersion |-> t.snapVersion]
  IN parseDocuments(storeParseResult(s, uri, result.kind, entry),
                    [t EXCEPT !.queue = Tail(@),
                              !.phase = "running",
                              !.changed = IF isChangedBy(s, uri, result.kind)
                                          THEN AddUnique(@, <<uri>>) ELSE @,
                              !.hadError = @ \/ result.kind = "error"])

\* "removeDocumentFromIndex(uri); indexDocument(uri); [rebuildFilteredRootForDocument(uri)]"
updateOne(s, uri, withFilteredRoot) ==
  IF withFilteredRoot
  THEN rebuildFilteredRootForDocument(indexDocument(removeDocumentFromIndex(s, uri), uri), uri)
  ELSE indexDocument(removeDocumentFromIndex(s, uri), uri)

markProcessed(s, uri) == [s EXCEPT !.processed = @ \cup {uri}]

RECURSIVE updateChanged(_, _, _)
\* for (const uri of changedUris) { ... }
updateChanged(s, changed, withFilteredRoot) ==
  IF changed = <<>> THEN s
  ELSE updateChanged(markProcessed(updateOne(s, Head(changed), withFilteredRoot), Head(changed)),
                     Tail(changed), withFilteredRoot)

NewTask(s, kind, queue) ==
  [IdleTask EXCEPT !.phase = "running", !.kind = kind, !.slot = FreeSlot(s), !.queue = queue]

(***************************************************************************)
(* setCustomViewForDocument, updateCustomView, removeCustomViewId          *)
(* Phases of a call: "running", "awaitPromise" (suspended on parsePromise), *)
(* "resumed" (past that await), "parsing" (suspended in a parse), "parsed"  *)
(* (its parseDocuments call has returned).                                  *)
(***************************************************************************)
setView(s, uri, view) == [s EXCEPT !.customViewByUri[uri] = view]

markViewDone(s, uri, hadError) == [s EXCEPT !.viewDone = IF hadError THEN @ ELSE @ \cup {uri}]

shouldReparse(previous, view) ==
  \/ resolveParseOptions(previous).parseMode # resolveParseOptions(view).parseMode
  \/ ~sameList(resolveParseOptions(previous).nameTags, resolveParseOptions(view).nameTags)
  \/ ~sameList(resolveParseOptions(previous).nameTextTags, resolveParseOptions(view).nameTextTags)

\* the part of setCustomViewForDocument after "await this.parseDocuments([document])"
setCustomViewThen(s, t) ==
  [s |-> markViewDone(updateChanged(s, t.changed, TRUE), Head(t.targets), t.hadError),
   t |-> [t EXCEPT !.phase = "running", !.targets = Tail(@), !.changed = <<>>, !.hadError = FALSE]]

setCustomViewParsed(r) == IF r.t.phase = "parsing" THEN r ELSE [r EXCEPT !.t.phase = "parsed"]

\* setCustomViewForDocument after "if (this.parsePromise) await this.parsePromise",
\* up to the return of its parseDocuments call
setCustomViewBody(s, t) ==
  IF shouldReparse(s.customViewByUri[Head(t.targets)], t.view)
  THEN setCustomViewParsed(
         parseDocuments(setView(s, Head(t.targets), t.view),
                        [t EXCEPT !.phase = "running", !.queue = <<Head(t.targets)>>,
                                  !.changed = <<>>, !.hadError = FALSE]))
  ELSE [s |-> markViewDone(rebuildFilteredRootForDocument(setView(s, Head(t.targets), t.view),
                                                          Head(t.targets)),
                           Head(t.targets), FALSE),
        t |-> [t EXCEPT !.phase = "running", !.targets = Tail(@)]]

\* one call, up to its next suspension or the return of its parseDocuments call
setCustomViewForDocument(s, t) ==
  IF s.parsePromise /\ t.phase # "resumed" THEN Suspend(s, t, "awaitPromise")
  ELSE setCustomViewBody(s, t)

RECURSIVE viewTargets(_, _)
RECURSIVE viewNext(_)
viewNext(r) == viewTargets(r.s, r.t)

\* the loop over targets of updateCustomView / removeCustomViewId, which stops
\* where a call of setCustomViewForDocument suspends; a direct
\* setCustomViewForDocument call (op "set") is the one-target case without the
\* preceding customViewByUri.set
viewTargets(s, t) ==
  IF t.phase \in {"parsing", "awaitPromise"} THEN [s |-> s, t |-> t]
  ELSE IF t.phase = "parsed" THEN viewNext(setCustomViewThen(s, t))
  ELSE IF t.targets = <<>> THEN [s |-> s, t |-> t]
  ELSE IF t.phase = "resumed" \/ t.op = "set"
       THEN viewNext(setCustomViewForDocument(s, t))
  ELSE IF s.docs[Head(t.targets)].open
       THEN viewNext(setCustomViewForDocument(setView(s, Head(t.targets), t.view), t))
  ELSE viewNext([s |-> rebuildFilteredRootForDocument(setView(s, Head(t.targets), t.view),
                                                      Head(t.targets)),
                 t |-> [t EXCEPT !.targets = Tail(@)]])

RECURSIVE ResumeWaiters(_)
\* the calls awaiting parsePromise continue, in order of arrival, once it settles
ResumeWaiters(s) ==
  IF s.waiters = <<>> THEN s
  ELSE ResumeWaiters(StoreTask(viewTargets([s EXCEPT !.waiters = Tail(@)],
                                           [s.tasks[Head(s.waiters)] EXCEPT !.phase = "resumed"])))

(***************************************************************************)
(* rebuildTree, ensureAllDocumentsParsed, getDocumentRoot                  *)
(***************************************************************************)
collectArxmlDocuments(s) ==
  LET openDocs == SelectSeq(UriOrder, LAMBDA u : s.docs[u].open)
  IN IF openDocs = <<>> /\ s.arxmlDocument # NoDoc THEN <<s.arxmlDocument>>
     ELSE IF s.arxmlDocument # NoDoc /\ s.arxmlDocument \notin Range(openDocs)
          THEN Append(openDocs, s.arxmlDocument)
     ELSE openDocs

\* .finally(...) of rebuildTree, then the continuations of the calls awaiting parsePromise
rebuildTreeFinally(s) ==
  ResumeWaiters(IF s.pendingRefresh
                THEN scheduleRefresh([s EXCEPT !.parsePromise = FALSE, !.pendingRefresh = FALSE], FALSE)
                ELSE [s EXCEPT !.parsePromise = FALSE])

\* .then(changedUris => ...) and .finally(...) of rebuildTree
rebuildTreeThen(s, t) == rebuildTreeFinally(updateChanged(s, t.changed, TRUE))

\* what the caller of parseDocuments does with the batch r: it stays suspended
\* while the batch is, and runs its continuation once the batch has returned
afterParseDocuments(r) ==
  IF r.t.phase = "parsing" THEN StoreTask(r)
  ELSE IF r.t.kind = "rebuild" THEN rebuildTreeThen(StoreTask(r), r.t)
  ELSE IF r.t.kind = "view"
       THEN StoreTask(viewTargets(StoreTask(r), [r.t EXCEPT !.phase = "parsed"]))
  ELSE updateChanged(StoreTask(r), r.t.changed, FALSE)

rebuildTree(s) ==
  IF collectArxmlDocuments(s) = <<>>
  THEN IF s.parsedDocuments # <<>> THEN [s EXCEPT !.parsedDocuments = <<>>] ELSE s
  ELSE IF s.parsePromise THEN [s EXCEPT !.pendingRefresh = TRUE]
  ELSE afterParseDocuments(parseDocuments([s EXCEPT !.parsePromise = TRUE],
                                          NewTask(s, "rebuild", collectArxmlDocuments(s))))

ensureAllDocumentsParsed(s) ==
  LET allArxmlDocs == IF s.refreshMode = "onChange"
                      THEN SelectSeq(UriOrder, LAMBDA u : s.docs[u].open)
                      ELSE IF getActiveArxmlDocument(s) # NoDoc
                           THEN <<getActiveArxmlDocument(s)>> ELSE <<>>
      docsToParse == SelectSeq(allArxmlDocs,
                        LAMBDA u : ~CacheIsCurrent(s, u, resolveParseOptions(s.customViewByUri[u])))
  IN IF allArxmlDocs = <<>> THEN s
     ELSE IF docsToParse # <<>>
          THEN afterParseDocuments(parseDocuments(s, NewTask(s, "ensure", docsToParse)))
     ELSE IF DOMAIN s.arpathIndex = {} /\ s.parsedDocuments # <<>> THEN rebuildArpathIndex(s)
     ELSE s

getDocumentRoot(s, uri) ==
  IF ~MapHas(s.parsedDocuments, uri) /\ s.docs[uri].open
  THEN afterParseDocuments(parseDocuments(s, NewTask(s, "docRoot", <<uri>>)))
  ELSE s

(***************************************************************************)
(* OptimizedTreeProvider (optimizedTreeProvider.ts)                        *)
(* filterCache: key -> chunk; loadingChunks: key -> promise; promises: the *)
(* chunks whose setImmediate callback has not run yet, oldest first, each  *)
(* with the calls of getOptimizedChildren waiting for it.  A chunk is kept *)
(* as the references of its nodes.                                         *)
(***************************************************************************)
CHUNK_SIZE == 100

\* bound on the chunks being loaded at a time
MaxLoads == 1

\* what a chunk keeps of a node object: identity, path, file, and the
\* identities of the objects in its children array
LazyRef(node) ==
  [oid |-> node.oid, arpath |-> node.arpath, file |-> node.file,
   children |-> [i \in DOMAIN node.children |-> node.children[i].oid]]

\* OptimizedTreeProvider.matchesPattern: as matchesPattern, but the regex
\* pattern is not trimmed
optimizedMatchesPattern(value, pattern, mode) ==
  IF pattern = <<>> THEN TRUE
  ELSE IF mode = "contains" \/ mode = "regex" THEN Includes(ToLowerCase(value), ToLowerCase(pattern))
  ELSE GlobMatch(ToLowerCase(value), ToLowerCase(pattern))

nodeMatchesFilter(node, filter) ==
  /\ filter.name # <<>> => optimizedMatchesPattern(node.name, filter.name, resolveFilterMode(filter, "name"))
  /\ filter.arpath # <<>> => optimizedMatchesPattern(node.arpath, filter.arpath, resolveFilterMode(filter, "arpath"))
  /\ filter.element # <<>> => optimizedMatchesPattern(<<node.element>>, filter.element, resolveFilterMode(filter, "element"))

\* the descendants of node that match, in the order the stack walk pops them
findMatchingChildren(node, filter) ==
  SelectSeq(Tail(StackOrder(node)), LAMBDA current : nodeMatchesFilter(current, filter))

applyFilterOptimized(nodes, filter) ==
  Flatten([i \in DOMAIN nodes |->
             (IF nodeMatchesFilter(nodes[i], filter) THEN <<nodes[i]>> ELSE <<>>)
             \o (IF findMatchingChildren(nodes[i], filter) # <<>>
                 THEN <<[nodes[i] EXCEPT !.oid = CopyOf(nodes[i]),
                                         !.children = findMatchingChildren(nodes[i], filter)]>>
                 ELSE <<>>)])

\* { ...node, childrenLoaded, hasChildren, matchesFilter, virtualChildren }
convertToLazyNode(node) == LazyRef([node EXCEPT !.oid = CopyOf(node)])

\* the value the promise of loadChildrenChunk resolves with; filter: optional
loadChildrenChunk(parentNode, filter, offset, limit) ==
  IF parentNode.children = <<>> THEN <<>>
  ELSE LET filteredChildren == IF filter # <<>> THEN applyFilterOptimized(parentNode.children, filter[1])
                               ELSE parentNode.children
           count == IF Len(filteredChildren) <= offset THEN 0
                    ELSE Min2(limit, Len(filteredChildren) - offset)
       IN [i \in 1..count |-> convertToLazyNode(filteredChildren[offset + i])]

\* `${parentNode.arpath}:${filterKey}:${offset}:${limit}`; the modes and the
\* numbers are one symbol each, an undefined field mode is the empty string
buildCacheKey(parentNode, filter, offset, limit) ==
  LET Mode(m) == IF m = "none" THEN <<>> ELSE <<m>>
      filterKey == IF filter # <<>>
                   THEN <<filter[1].mode>> \o <<":">> \o Mode(filter[1].nameMode) \o <<":">>
                        \o Mode(filter[1].arpathMode) \o <<":">> \o Mode(filter[1].elementMode)
                        \o <<":">> \o filter[1].name \o <<":">> \o filter[1].arpath
                        \o <<":">> \o filter[1].element
                   ELSE <<"no-filter">>
  IN parentNode.arpath \o <<":">> \o filterKey \o <<":", offset, ":", limit>>

FreePromise(o) == CHOOSE id \in 1..(MaxLoads + 1) : \A i \in DOMAIN o.promises : o.promises[i].id # id

\* getOptimizedChildren up to its return or its await: the provider after
\* it; a call that finds its key loading waits for that chunk
getOptimizedChildren(o, parentNode, filter, offset, limit) ==
  LET cacheKey == buildCacheKey(parentNode, filter, offset, limit)
      call == NodeRef(parentNode)
  IN IF cacheKey \in DOMAIN o.filterCache THEN o
     ELSE IF cacheKey \in DOMAIN o.loadingChunks
     THEN [o EXCEPT !.promises = [i \in DOMAIN @ |->
                                    IF @[i].id = o.loadingChunks[cacheKey]
                                    THEN [@[i] EXCEPT !.joined = @ \cup {call}] ELSE @[i]]]
     ELSE [o EXCEPT !.loadingChunks = (cacheKey :> FreePromise(o)) @@ @,
                    !.promises = Append(@, [id |-> FreePromise(o), key |-> cacheKey,
                                            chunk |-> loadChildrenChunk(parentNode, filter, offset, limit),
                                            caller |-> call, joined |-> {}])]

\* the setImmediate callback of the oldest chunk resolves its promise; the
\* call that started the load caches the chunk and deletes the loading entry
\* of its key, and every waiting call returns the chunk
chunkLoaded(o) ==
  LET promise == Head(o.promises)
  IN [o EXCEPT !.promises = Tail(@),
               !.filterCache = (promise.key :> promise.chunk) @@ @,
               !.loadingChunks = MapRemoveKey(@, promise.key)]

clearCache(o) == [o EXCEPT !.filterCache = <<>>, !.loadingChunks = <<>>]

\* the callback of the timer is the re-projection of the document uri
debouncedApplyFilter(o, uri) == [o EXCEPT !.filterTimer = uri]

(***************************************************************************)
(* getChildren and setFilterForDocument                                    *)
(***************************************************************************)
\* optional filter
getCurrentFilter(s) ==
  IF s.activeEditor # NoDoc /\ s.activeEditor \in DOMAIN s.filterByUri
  THEN <<s.filterByUri[s.activeEditor]>> ELSE <<>>

shouldUseOptimizedProvider(node, filter) ==
  filter # <<>> /\ getDescendantCount(node) > LARGE_TREE_THRESHOLD

\* getChildren(node) for a node with a children array: the provider after it
getChildren(s, o, node) ==
  IF shouldUseOptimizedProvider(node, getCurrentFilter(s))
  THEN getOptimizedChildren(o, node, getCurrentFilter(s), 0, CHUNK_SIZE)
  ELSE o

\* the children getChildren(node) returns without waiting for a chunk, as an
\* optional sequence of references
childrenReturned(s, o, node) ==
  LET cacheKey == buildCacheKey(node, getCurrentFilter(s), 0, CHUNK_SIZE)
  IN IF ~shouldUseOptimizedProvider(node, getCurrentFilter(s))
     THEN <<[i \in DOMAIN node.children |-> LazyRef(node.children[i])]>>
     ELSE IF cacheKey \in DOMAIN o.filterCache THEN <<o.filterCache[cacheKey]>>
     ELSE <<>>

isLargeDocument(s, uri) ==
  /\ MapHas(s.parsedDocuments, uri)
  /\ getDescendantCount(MapGet(s.parsedDocuments, uri).root) > LARGE_TREE_THRESHOLD

\* what setFilterForDocument does to the coordinator: the projection of a
\* large document is left to the debounced callback
setFilterForDocument(s, uri, filter) ==
  LET s1 == [s EXCEPT !.filterByUri = IF filter = NoFilter \/ isEmptyFilter(filter)
                                      THEN MapRemoveKey(@, uri)
                                      ELSE (uri :> filter) @@ @]
  IN IF isLargeDocument(s, uri) THEN s1 ELSE rebuildFilteredRootForDocument(s1, uri)

\* what setFilterForDocument does to the optimized provider
setFilterOptimized(s, o, uri) ==
  IF isLargeDocument(s, uri) THEN debouncedApplyFilter(clearCache(o), uri) ELSE o

(***************************************************************************)
(* Lookup                                                                  *)
(***************************************************************************)
getRootNodes(s) ==
  LET roots == [i \in DOMAIN s.parsedDocuments |->
                  IF s.parsedDocuments[i].uri \in DOMAIN s.filteredRootsByUri
                  THEN s.filteredRootsByUri[s.parsedDocuments[i].uri]
                  ELSE s.parsedDocuments[i].root]
      ByFsPath(x, y) == StrLess(BaseName(x.file), BaseName(y.file))
  IN StableSort(roots, ByFsPath)

\* first node in stack order that satisfies the predicate, as an optional node
findInTree(root, Pred(_)) ==
  LET hits == SelectSeq(StackOrder(root), Pred)
  IN IF hits = <<>> THEN <<>> ELSE <<hits[1]>>

\* optional node reference
findByArpath(s, target) ==
  LET variants == buildArpathVariants(target)
      hitKeys == SelectSeq(variants, LAMBDA v : v \in DOMAIN s.arpathIndex /\ Len(s.arpathIndex[v]) > 0)
      Matches(node) == \E i \in DOMAIN variants :
                          node.arpath = variants[i] \/ EndsWith(node.arpath, variants[i])
      scans == Flatten([i \in DOMAIN getRootNodes(s) |-> findInTree(getRootNodes(s)[i], Matches)])
  IN IF hitKeys # <<>> THEN <<s.arpathIndex[hitKeys[1]][1]>>
     ELSE IF scans # <<>> THEN <<NodeRef(scans[1])>>
     ELSE <<>>

\* path.parse(rootName).name: the name up to its last dot, if that is not the first character
ParseName(name) ==
  LET dots == {i \in DOMAIN name : name[i] = "." /\ i > 1}
  IN IF dots = {} THEN name ELSE SubSeq(name, 1, (CHOOSE i \in dots : \A j \in dots : j <= i) - 1)

getRootAliases(rootName) ==
  LET base == ParseName(rootName)
      dots == {i \in DOMAIN base : base[i] = "."}
  IN {rootName, base}
       \cup (IF dots = {} THEN {}
             ELSE {SubSeq(base, 1, (CHOOSE i \in dots : \A j \in dots : i <= j) - 1)})

\* Array.prototype.find on the children, as an optional node
ChildNamed(node, label) ==
  LET hits == SelectSeq(node.children, LAMBDA c : c.name = label)
  IN IF hits = <<>> THEN <<>> ELSE <<hits[1]>>

RECURSIVE Descend(_, _)
\* the loop of walkPath
Descend(node, labels) ==
  IF labels = <<>> THEN <<node>>
  ELSE IF ChildNamed(node, labels[1]) = <<>> THEN <<>>
       ELSE Descend(ChildNamed(node, labels[1])[1], Tail(labels))

RECURSIVE walkPath(_, _)
walkPath(root, labels) ==
  IF labels # <<>> /\ labels[1] \notin getRootAliases(root.name)
     /\ ChildNamed(root, labels[1]) # <<>>
  THEN walkPath(ChildNamed(root, labels[1])[1], Tail(labels))
  ELSE Descend(root, IF labels # <<>> /\ labels[1] \in getRootAliases(root.name)
                     THEN Tail(labels) ELSE labels)

\* >\s*term\s*< on character data between two tags
PaddedBy(v, term) ==
  \E i \in 0..(Len(v) - Len(term)) :
    /\ SubSeq(v, i + 1, i + Len(term)) = term
    /\ \A j \in (1..i) \cup ((i + Len(term) + 1)..Len(v)) : v[j] \in WhiteSpace

\* /term(?:/|\s|$) inside character data; last: the data ends the text
PathMention(v, term, last) ==
  \E i \in 0..(Len(v) - Len(term) - 1) :
    /\ v[i + 1] = SLASH
    /\ SubSeq(v, i + 2, i + 1 + Len(term)) = term
    /\ IF i + 1 + Len(term) = Len(v) THEN last
       ELSE v[i + 2 + Len(term)] \in WhiteSpace \cup {SLASH}

\* one of the three patterns matches the text of the document
TextMentions(text, term) ==
  \E k \in DOMAIN text :
    \/ /\ text[k].t = "text"
       /\ \/ k > 1 /\ k < Len(text) /\ PaddedBy(text[k].v, term)
          \/ PathMention(text[k].v, term, k = Len(text))
    \/ text[k].t = "open" /\ text[k].uuid # NoUuid /\ term = <<text[k].uuid>>

\* the node handed out for a hit in the text of a document
findByTextSearch(s, arpath) ==
  LET pathParts == Parts(arpath)
      searchTerm == Last(pathParts)
      hits == SelectSeq(UriOrder, LAMBDA uri : s.docs[uri].open
                                                /\ TextMentions(Texts[s.docs[uri].text], searchTerm))
  IN IF pathParts = <<>> \/ hits = <<>> THEN <<>>
     ELSE <<[oid |-> NoOid, arpath |-> arpath, file |-> hits[1]]>>

\* findNodeWithArPath once ensureAllDocumentsParsed has completed
lookupNode(s, targetLabel) ==
  LET normalized == normalizeArpath(targetLabel)
      direct == findByArpath(s, normalized)
      labels == SelectSeq(SplitSlash(normalized, <<>>), LAMBDA label : Trim(label) # <<>>)
      walks == Flatten([i \in DOMAIN getRootNodes(s) |-> walkPath(getRootNodes(s)[i], labels)])
  IN IF direct # <<>> THEN direct
     ELSE IF walks # <<>> THEN <<NodeRef(walks[1])>>
     ELSE findByTextSearch(s, normalized)

(***************************************************************************)
(* Initial state: the host has both documents open, the coordinator has    *)
(* just been constructed                                                   *)
(***************************************************************************)
InitialDocs ==
  [u \in Uris |-> [open |-> TRUE, version |-> 1, text |-> IF u = "a" THEN 1 ELSE 2]]

Blank(active, mode) ==
  [docs |-> InitialDocs, activeEditor |-> active, refreshMode |-> mode,
   arxmlDocument |-> NoDoc, parsedDocuments |-> <<>>, refreshTimer |-> 0, timers |-> {},
   parsePromise |-> FALSE, pendingRefresh |-> FALSE, arpathIndex |-> <<>>,
   docArpathKeys |-> <<>>, customViewByUri |-> [u \in Uris |-> NoView],
   filteredRootsByUri |-> <<>>, filterByUri |-> <<>>,
   tasks |-> [i \in Slots |-> IdleTask], waiters |-> <<>>, nextGen |-> [u \in Uris |-> 0],
   processed |-> {}, decisions |-> {}, viewDone |-> {}, burst |-> 0, ok |-> TRUE]

Constructor(s) ==
  LET s1 == [s EXCEPT !.arxmlDocument = getActiveArxmlDocument(s)]
  IN IF s1.arxmlDocument # NoDoc THEN rebuildTree(s1) ELSE s1

Start(s) ==
  /\ docs = s.docs
  /\ activeEditor = s.activeEditor
  /\ refreshMode = s.refreshMode
  /\ arxmlDocument = s.arxmlDocument
  /\ parsedDocuments = s.parsedDocuments
  /\ refreshTimer = s.refreshTimer
  /\ timers = s.timers
  /\ parsePromise = s.parsePromise
  /\ pendingRefresh = s.pendingRefresh
  /\ arpathIndex = s.arpathIndex
  /\ docArpathKeys = s.docArpathKeys
  /\ customViewByUri = s.customViewByUri
  /\ filteredRootsByUri = s.filteredRootsByUri
  /\ filterByUri = s.filterByUri
  /\ tasks = s.tasks
  /\ waiters = s.waiters
  /\ nextGen = s.nextGen
  /\ processed = s.processed
  /\ decisions = s.decisions
  /\ viewDone = s.viewDone
  /\ burst = s.burst

\* one document open
Init ==
  \E active \in {"a", NoDoc}, mode \in RefreshModes :
    /\ Start(Constructor([Blank(active, mode) EXCEPT !.docs["b"].open = FALSE]))
    /\ parser = ParserIdle /\ query = QueryIdle /\ StoresIdle

\* two documents open
InitIndex ==
  \E mode \in {"onChange", "manual"} : Start(Constructor(Blank("a", mode))) /\ parser = ParserIdle /\ query = QueryIdle /\ StoresIdle

\* one document open and active, refresh on every edit
InitView ==
  /\ Start(Constructor([Blank("a", "onChange") EXCEPT !.docs["b"].open = FALSE]))
  /\ parser = ParserIdle /\ query = QueryIdle /\ StoresIdle

(***************************************************************************)
(* Handlers                                                                *)
(***************************************************************************)
\* variant that schedules on an edit under every policy but manual
onDidChangeTextDocument_NotManual(s, uri) ==
  IF s.arxmlDocument = NoDoc \/ uri = s.arxmlDocument
  THEN LET s1 == [s EXCEPT !.arxmlDocument = uri]
       IN IF s.refreshMode # "manual" THEN scheduleRefresh(s1, FALSE) ELSE s1
  ELSE s

onDidChangeTextDocument(s, uri) ==
  IF s.arxmlDocument = NoDoc \/ uri = s.arxmlDocument
  THEN LET s1 == [s EXCEPT !.arxmlDocument = uri]
       IN IF s.refreshMode = "onChange" THEN scheduleRefresh(s1, FALSE) ELSE s1
  ELSE s

onDidSaveTextDocument(s, uri) ==
  IF s.refreshMode = "onSave" /\ (s.arxmlDocument = NoDoc \/ uri = s.arxmlDocument)
  THEN scheduleRefresh([s EXCEPT !.arxmlDocument = uri], FALSE)
  ELSE s

onDidChangeActiveTextEditor(s) ==
  IF s.activeEditor # NoDoc
  THEN scheduleRefresh([s EXCEPT !.arxmlDocument = s.activeEditor], TRUE)
  ELSE [s EXCEPT !.arxmlDocument = NoDoc]

\* the user edits an open document: the host bumps its version and reports the change
EditDocument(uri, text) ==
  /\ docs[uri].open
  /\ docs[uri].version < MaxVersion
  /\ Commit(onDidChangeTextDocument(
              [Me EXCEPT !.docs[uri].version = @ + 1, !.docs[uri].text = text], uri))

SaveDocument(uri) ==
  /\ docs[uri].open
  /\ Commit(onDidSaveTextDocument(Me, uri))

\* the active editor changes to an open ARXML document or to something else
ChangeActiveEditor(editor) ==
  /\ editor # activeEditor
  /\ editor # NoDoc => docs[editor].open
  /\ Commit(onDidChangeActiveTextEditor([Me EXCEPT !.activeEditor = editor]))

\* a mouse selection in the editor of the tracked document
onDidChangeTextEditorSelection ==
  /\ arxmlDocument # NoDoc
  /\ activeEditor = arxmlDocument
  /\ Commit(getDocumentRoot(Me, activeEditor))

\* the host closes a document that is not shown in the active editor; the
\* coordinator listens to no such event
CloseDocument(uri) ==
  /\ docs[uri].open
  /\ activeEditor # uri
  /\ Commit([Me EXCEPT !.docs[uri].open = FALSE])

\* the refresh command
refresh ==
  Commit(scheduleRefresh(IF arxmlDocument = NoDoc
                         THEN [Me EXCEPT !.arxmlDocument = getActiveArxmlDocument(Me)]
                         ELSE Me, FALSE))

\* an armed timer fires: the callback of scheduleRefresh
TimerFire(tm) ==
  /\ tm \in timers
  /\ Commit(rebuildTree([Me EXCEPT !.timers = @ \ {tm}, !.refreshTimer = 0, !.burst = 0]))

\* hover / goto: the state-changing part is the ensure-parsed step
findNodeWithArPath ==
  Commit(ensureAllDocumentsParsed(Me))

SetCustomView(uri, view) ==
  /\ docs[uri].open
  /\ Commit(StoreTask(viewTargets(Me,
       [NewTask(Me, "view", <<>>) EXCEPT !.op = "set", !.targets = <<uri>>, !.view = view])))

ViewTargetsOf(id) == SelectSeq(UriOrder, LAMBDA u : customViewByUri[u].id = id)

updateCustomView(view) ==
  /\ ViewTargetsOf(view.id) # <<>>
  /\ Commit(StoreTask(viewTargets(Me,
       [NewTask(Me, "view", <<>>) EXCEPT !.op = "update", !.targets = ViewTargetsOf(view.id), !.view = view])))

removeCustomViewId(id) ==
  /\ ViewTargetsOf(id) # <<>>
  /\ Commit(StoreTask(viewTargets(Me,
       [NewTask(Me, "view", <<>>) EXCEPT !.op = "remove", !.targets = ViewTargetsOf(id), !.view = NoView])))

\* the user sets or clears the filter of an open document
SetFilter(uri, filter) ==
  /\ docs[uri].open
  /\ CommitCoordinator(setFilterForDocument(Me, uri, filter))
  /\ optimized' = setFilterOptimized(Me, optimized, uri)
  /\ UNCHANGED <<parser, query, search, bookmarks, history>>

\* the debounce timer of the optimized provider fires
FilterTimerFire ==
  /\ optimized.filterTimer # NoDoc
  /\ CommitCoordinator(rebuildFilteredRootForDocument(Me, optimized.filterTimer))
  /\ optimized' = [optimized EXCEPT !.filterTimer = NoDoc]
  /\ UNCHANGED <<parser, query, search, bookmarks, history>>

\* the tree view asks for the children of a document root it shows
GetChildren(node) ==
  /\ Len(getChildren(Me, optimized, node).promises) <= MaxLoads
  /\ optimized' = getChildren(Me, optimized, node)
  /\ UNCHANGED <<coordinator, parser, query, search, bookmarks, history>>

ChunkLoaded ==
  /\ optimized.promises # <<>>
  /\ optimized' = chunkLoaded(optimized)
  /\ UNCHANGED <<coordinator, parser, query, search, bookmarks, history>>

\* the event loop resumes a call suspended inside parseArxmlDocument
ParseStep(i) ==
  /\ tasks[i].phase = "parsing"
  /\ Commit(afterParseDocuments(parseDocumentsResume(Me, tasks[i])))

\* texts that parse under the default options
GoodTextIds == {1, 2}

\* events of the editor and the event loop, no custom views
Next ==
  \/ \E uri \in Uris, text \in TextIds : EditDocument(uri, text)
  \/ \E uri \in Uris : SaveDocument(uri)
  \/ \E editor \in Uris \cup {NoDoc} : ChangeActiveEditor(editor)
  \/ onDidChangeTextEditorSelection
  \/ refresh
  \/ \E tm \in timers : TimerFire(tm)
  \/ findNodeWithArPath
  \/ \E i \in Slots : ParseStep(i)

Spec == Init /\ [][Next]_vars

\* the timer and its users: no path queries, no selection
NextTimer ==
  \/ \E uri \in Uris, text \in TextIds : EditDocument(uri, text)
  \/ \E uri \in Uris : SaveDocument(uri)
  \/ \E editor \in Uris \cup {NoDoc} : ChangeActiveEditor(editor)
  \/ refresh
  \/ \E tm \in timers : TimerFire(tm)
  \/ \E i \in Slots : ParseStep(i)

SpecTimer == Init /\ [][NextTimer]_vars

\* two documents that share index keys; the user edits the active one
NextIndex ==
  \/ \E text \in GoodTextIds : EditDocument("a", text)
  \/ \E tm \in timers : TimerFire(tm)
  \/ findNodeWithArPath
  \/ \E i \in Slots : ParseStep(i)

SpecIndex == InitIndex /\ [][NextIndex]_vars

\* custom views on one document
NextView ==
  \/ \E uri \in Uris, text \in TextIds : EditDocument(uri, text)
  \/ refresh
  \/ \E tm \in timers : TimerFire(tm)
  \/ \E uri \in Uris, view \in Views \cup {NoView} : SetCustomView(uri, view)
  \/ \E view \in Views : updateCustomView(view)
  \/ \E id \in ViewIds : removeCustomViewId(id)
  \/ \E i \in Slots : ParseStep(i)

SpecView == InitView /\ [][NextView]_vars

\* two documents, either of which may be edited into a text that fails to
\* parse or into a blank one; refreshes by timer and by command
NextBatch ==
  \/ \E uri \in Uris, text \in TextIds : EditDocument(uri, text)
  \/ refresh
  \/ \E tm \in timers : TimerFire(tm)
  \/ \E i \in Slots : ParseStep(i)

SpecBatch == InitIndex /\ [][NextBatch]_vars

\* one open document, of any text, with views and filters set on it
InitProject ==
  /\ \E text \in OpenTextIds :
       Start(Constructor([Blank("a", "manual") EXCEPT !.docs["b"].open = FALSE,
                                                     !.docs["a"].text = text]))
  /\ parser = ParserIdle /\ query = QueryIdle /\ StoresIdle

NextProject ==
  \/ \E filter \in Filters \cup {NoFilter} : SetFilter("a", filter)
  \/ \E view \in Views \cup {NoView} : SetCustomView("a", view)
  \/ \E i \in Slots : ParseStep(i)

SpecProject == InitProject /\ [][NextProject]_vars

\* a filter that every node matches
FilterAnyName == [NoFilter EXCEPT !.mode = "glob", !.name = <<"*">>]

LargeFilters == {FilterAnyName}

\* one large document open and active, refresh on every edit
InitOptimized ==
  /\ Start(Constructor([Blank("a", "onChange") EXCEPT !.docs["a"].text = LargeTextId,
                                                       !.docs["b"].open = FALSE]))
  /\ parser = ParserIdle /\ query = QueryIdle /\ StoresIdle

\* the large document is parsed, filtered, edited and re-parsed while the
\* tree view expands its root
NextOptimized ==
  \/ \E filter \in LargeFilters \cup {NoFilter} : SetFilter("a", filter)
  \/ FilterTimerFire
  \/ \E i \in DOMAIN getRootNodes(Me) : GetChildren(getRootNodes(Me)[i])
  \/ ChunkLoaded
  \/ EditDocument("a", LargeTextId)
  \/ \E tm \in timers : TimerFire(tm)
  \/ \E i \in Slots : ParseStep(i)

SpecOptimized == InitOptimized /\ [][NextOptimized]_vars

\* one document that is edited, left, closed and refreshed
NextClose ==
  \/ \E text \in TextIds : EditDocument("a", text)
  \/ \E editor \in {"a", NoDoc} : ChangeActiveEditor(editor)
  \/ CloseDocument("a")
  \/ refresh
  \/ \E tm \in timers : TimerFire(tm)
  \/ \E i \in Slots : ParseStep(i)

SpecClose == InitView /\ [][NextClose]_vars

\* a filtered document that is edited, refreshed by timer, hovered over and
\* clicked into
NextShown ==
  \/ \E filter \in Filters \cup {NoFilter} : SetFilter("a", filter)
  \/ \E text \in TextIds : EditDocument("a", text)
  \/ \E tm \in timers : TimerFire(tm)
  \/ findNodeWithArPath
  \/ onDidChangeTextEditorSelection
  \/ \E i \in Slots : ParseStep(i)

SpecShown == InitView /\ [][NextShown]_vars

\* two documents open with any texts, the first one active and tracked,
\* refresh on every edit
InitSettle ==
  /\ \E ta \in GoodTextIds, tb \in GoodTextIds :
       Start(Constructor([Blank("a", "onChange") EXCEPT !.docs["a"].text = ta,
                                                       !.docs["b"].text = tb]))
  /\ parser = ParserIdle /\ query = QueryIdle /\ StoresIdle

\* edits that change the text, and the event loop
NextSettle ==
  \/ \E uri \in Uris : \E text \in GoodTextIds \ {docs[uri].text} : EditDocument(uri, text)
  \/ \E tm \in timers : TimerFire(tm)
  \/ \E i \in Slots : ParseStep(i)

\* the event loop runs armed timers and suspended parses again and again as
\* long as there are any; the user is free to stop editing
SpecSettle ==
  /\ InitSettle
  /\ [][NextSettle]_vars
  /\ ([]<>(timers = {}) \/ []<><<\E tm \in timers : TimerFire(tm)>>_vars)
  /\ ([]<>(\A i \in Slots : tasks[i].phase # "parsing") \/ []<><<\E i \in Slots : ParseStep(i)>>_vars)

(***************************************************************************)
(* One call of parseArxmlDocument, event by event.  The input is any       *)
(* sequence of SAX events of at most MaxTokens events and MaxDepth open    *)
(* elements with at most one piece of malformed markup; SAX reports        *)
(* adjacent character data as one text event.                              *)
(***************************************************************************)
ParserTags == {"PKG", SHORT_NAME_TAG}

ParserTexts == {<<"P">>, <<" ">>}

\* the options parseDocuments passes for no view and for a lenient view
ParserOptions ==
  {[strict |-> resolveParseOptions(v).parseMode = "strict",
    nameTags |-> resolveParseOptions(v).nameTags,
    nameTextTags |-> resolveParseOptions(v).nameTextTags] : v \in {NoView, ViewLenient}}

InitParser ==
  /\ Start(Blank(NoDoc, "manual"))
  /\ \E options \in ParserOptions :
       parser = [ParserIdle EXCEPT !.status = "writing", !.options = options]
  /\ query = QueryIdle
  /\ StoresIdle

\* parser.write delivers one event to its handler
Feed(tok) ==
  /\ parser.status = "writing"
  /\ Len(parser.text) < MaxTokens
  /\ parser' = [parser EXCEPT
                  !.text = Append(@, tok),
                  !.ps = SaxEvent(@, sanitizeXmlText(<<tok>>)[1], parser.options.strict,
                                  Range(parser.options.nameTags),
                                  Range(parser.options.nameTextTags))]
  /\ UNCHANGED <<coordinator, query, stores>>

SaxOpenTag(tag) ==
  /\ Len(parser.ps.elementStack) < MaxDepth
  /\ Feed(Open(tag))

\* character data inside an element: white space anywhere, other text inside
\* a name tag (the handlers drop character data of any other element when no
\* name-text tags are configured)
SaxText(value) ==
  /\ parser.text # <<>> => Last(parser.text).t # "text"
  /\ parser.ps.elementStack # <<>>
  /\ IF Last(parser.ps.elementStack).tag \in Range(parser.options.nameTags)
     THEN TRUE ELSE Trim(value) = <<>>
  /\ Feed(Text(value))

SaxCloseTag ==
  /\ parser.ps.elementStack # <<>>
  /\ Feed(Close)

\* markup that only strict SAX rejects
SaxMalformed ==
  /\ \A i \in DOMAIN parser.text : parser.text[i].t # "bad"
  /\ Feed([t |-> "bad"])

\* the input ends, inside markup (cut) or not: parser.close(), then the
\* outcome of the call
EndOfInput(cut) ==
  /\ parser.status = "writing"
  /\ cut => Len(parser.text) < MaxTokens
  /\ parser' = [parser EXCEPT
                  !.status = "done",
                  !.text = IF cut THEN Append(@, [t |-> "cut"]) ELSE @,
                  !.ps = parserClose(IF cut THEN onerror(@) ELSE @, parser.options.strict),
                  !.result = parseArxmlDocument(IF cut THEN Append(parser.text, [t |-> "cut"])
                                                ELSE parser.text,
                                                "a", parser.options, 1).kind]
  /\ UNCHANGED <<coordinator, query, stores>>

NextParser ==
  \/ \E tag \in ParserTags : SaxOpenTag(tag)
  \/ \E value \in ParserTexts : SaxText(value)
  \/ SaxCloseTag
  \/ SaxMalformed
  \/ \E cut \in BOOLEAN : EndOfInput(cut)

SpecParser == InitParser /\ [][NextParser]_vars

(***************************************************************************)
(* normalizeArpath on any path string of at most MaxPathLen characters,    *)
(* and again on its own result                                             *)
(***************************************************************************)
PathChars == {SLASH, "P", " ", "\t"}

InitPath ==
  /\ Start(Blank(NoDoc, "manual"))
  /\ parser = ParserIdle
  /\ query = QueryIdle
  /\ StoresIdle

TypePath(c) ==
  /\ query.passes = 0
  /\ Len(query.target) < MaxPathLen
  /\ query' = [query EXCEPT !.target = Append(@, c)]
  /\ UNCHANGED <<coordinator, parser, stores>>

NormalizePath ==
  /\ query.passes < MaxPasses
  /\ query' = [query EXCEPT
                 !.value = normalizeArpath(IF query.passes = 0 THEN query.target ELSE @),
                 !.passes = @ + 1]
  /\ UNCHANGED <<coordinator, parser, stores>>

NextPath ==
  \/ \E c \in PathChars : TypePath(c)
  \/ NormalizePath

SpecPath == InitPath /\ [][NextPath]_vars

(***************************************************************************)
(* BookmarkTreeProvider (treeProvider.ts): bookmarks by ARPATH, kept in    *)
(* memory and written to the workspace memento                             *)
(***************************************************************************)
InitStores ==
  /\ Start(Blank(NoDoc, "manual"))
  /\ parser = ParserIdle
  /\ query = QueryIdle
  /\ StoresIdle

\* nodes the user bookmarks; the first two share their ARPATH
BookmarkNodes ==
  {[name |-> <<"P">>, arpath |-> <<SLASH, "P">>, element |-> "PKG", file |-> "a", uuid |-> NoUuid],
   [name |-> <<"P">>, arpath |-> <<SLASH, "P">>, element |-> "COMP", file |-> "b", uuid |-> NoUuid],
   [name |-> <<"C">>, arpath |-> <<SLASH, "P", SLASH, "C">>, element |-> "COMP", file |-> "a", uuid |-> NoUuid],
   [name |-> <<"Q">>, arpath |-> <<SLASH, "Q">>, element |-> "PKG", file |-> "b", uuid |-> NoUuid],
   [name |-> <<"C">>, arpath |-> <<SLASH, "Q", SLASH, "C">>, element |-> "COMP", file |-> "b", uuid |-> NoUuid]}

BookmarkPaths == {node.arpath : node \in BookmarkNodes}

serializeNode(node) ==
  [name |-> node.name, arpath |-> node.arpath, element |-> node.element, file |-> node.file,
   uuid |-> node.uuid]

\* workspaceState.update(bookmarksKey, this.bookmarks)
persist(b) == [b EXCEPT !.stored = b.list]

\* variant that keeps a second bookmark for an ARPATH it already has
addBookmark_NoCheck(b, node) == persist([b EXCEPT !.list = Append(@, serializeNode(node))])

addBookmark(b, node) ==
  IF \E i \in DOMAIN b.list : b.list[i].arpath = node.arpath THEN b
  ELSE persist([b EXCEPT !.list = Append(@, serializeNode(node))])

removeBookmark(b, arpath) ==
  LET nextBookmarks == SelectSeq(b.list, LAMBDA bookmark : bookmark.arpath # arpath)
  IN IF Len(nextBookmarks) # Len(b.list) THEN persist([b EXCEPT !.list = nextBookmarks]) ELSE b

AddBookmark(node) ==
  /\ bookmarks' = [addBookmark(bookmarks, node) EXCEPT !.lastCall = (node.arpath :> "add") @@ @]
  /\ UNCHANGED <<coordinator, parser, query, search, history, optimized>>

RemoveBookmark(arpath) ==
  /\ bookmarks' = [removeBookmark(bookmarks, arpath) EXCEPT !.lastCall = (arpath :> "remove") @@ @]
  /\ UNCHANGED <<coordinator, parser, query, search, history, optimized>>

NextBookmarks ==
  \/ \E node \in BookmarkNodes : AddBookmark(node)
  \/ \E arpath \in BookmarkPaths : RemoveBookmark(arpath)

SpecBookmarks == InitStores /\ [][NextBookmarks]_vars

(***************************************************************************)
(* CrossFileSearchProvider: one workspace search at a time, processed in   *)
(* chunks of files, cancelled through the controller of the latest search  *)
(***************************************************************************)
\* files processed between two looks at the abort flag
chunkSize == 5

\* numbers of ARXML files findArxmlFiles may report
FileCounts == {0, 4, 6}

\* the abortSignal argument: absent, not yet aborted, aborted before the call
Signals == {"none", "armed", "aborted"}

SearchCalls == DOMAIN search.calls

\* AbortController.abort() on controller ctl; a call counts as signalled when
\* the abort reaches its controller while it has not ended
abort(sr, ctl) ==
  IF ctl = 0 THEN sr
  ELSE [sr EXCEPT !.aborted[ctl] = TRUE,
                  !.calls = [c \in DOMAIN @ |->
                               IF @[c].ctl = ctl /\ @[c].outcome = "running"
                               THEN [@[c] EXCEPT !.signalled = TRUE] ELSE @[c]]]

\* the call that is running when a new one is requested (0: none)
RunningCall(sr) ==
  IF \E c \in DOMAIN sr.calls : sr.calls[c].outcome = "running"
  THEN CHOOSE c \in DOMAIN sr.calls : sr.calls[c].outcome = "running"
  ELSE 0

NewCall(sr, signal) ==
  [ctl |-> 0, pc |-> "done", files |-> 0, i |-> 0, signal |-> signal, prev |-> RunningCall(sr),
   signalled |-> FALSE, outcome |-> "busy"]

\* searchWorkspace up to its first await
searchWorkspace(sr, signal) ==
  IF sr.isSearching
  THEN \* throw new Error('Search already in progress'), outside the try
       [sr EXCEPT !.calls = Append(@, NewCall(sr, signal))]
  ELSE LET cancelled == abort(sr, sr.last)
           ctl == Len(sr.aborted) + 1
       IN [cancelled EXCEPT !.isSearching = TRUE,
                            !.aborted = Append(@, FALSE),
                            !.last = ctl,
                            !.calls = Append(@, [NewCall(sr, signal) EXCEPT
                                                   !.ctl = ctl, !.pc = "finding",
                                                   !.outcome = "running"])]

\* the call ends: finally { this.isSearching = false }
endSearch(sr, c, outcome) ==
  [sr EXCEPT !.isSearching = FALSE, !.calls[c].pc = "done", !.calls[c].outcome = outcome]

\* head of the chunk loop, up to the await of the chunk's file searches
enterChunk(sr, c) ==
  LET call == sr.calls[c]
  IN IF ~(call.i < call.files) THEN endSearch(sr, c, "returned")
     ELSE IF sr.aborted[call.ctl] THEN endSearch(sr, c, "cancelled")
     ELSE [sr EXCEPT !.calls[c].pc = "searching"]

\* continuation of await findArxmlFiles()
filesFound(sr, c, n) ==
  IF sr.aborted[sr.calls[c].ctl] THEN endSearch(sr, c, "cancelled")
  ELSE enterChunk([sr EXCEPT !.calls[c].files = n, !.calls[c].i = 0], c)

\* continuation of await Promise.allSettled(chunkPromises): results are
\* collected, progress is reported, the loop yields with setImmediate
chunkSettled(sr, c) == [sr EXCEPT !.calls[c].pc = "yield"]

\* continuation of the setImmediate yield: i += chunkSize, next iteration
yielded(sr, c) == enterChunk([sr EXCEPT !.calls[c].i = @ + chunkSize], c)

cancelSearch(sr) == abort(sr, sr.last)

\* the abort listener searchWorkspace put on its abortSignal argument
onAbortSignal(sr, c) ==
  [abort(sr, sr.calls[c].ctl) EXCEPT !.calls[c].signal = "fired"]

SearchStep(sr) ==
  /\ search' = sr
  /\ UNCHANGED <<coordinator, parser, query, bookmarks, history, optimized>>

SearchWorkspace(signal) ==
  /\ Len(search.calls) < MaxSearches
  /\ SearchStep(searchWorkspace(search, signal))

FilesFound(c, n) ==
  /\ search.calls[c].pc = "finding"
  /\ SearchStep(filesFound(search, c, n))

ChunkSettled(c) ==
  /\ search.calls[c].pc = "searching"
  /\ SearchStep(chunkSettled(search, c))

Yielded(c) ==
  /\ search.calls[c].pc = "yield"
  /\ SearchStep(yielded(search, c))

CancelSearch ==
  /\ search.last # 0
  /\ ~search.aborted[search.last]
  /\ SearchStep(cancelSearch(search))

AbortSignal(c) ==
  /\ search.calls[c].signal = "armed"
  /\ search.calls[c].ctl # 0
  /\ SearchStep(onAbortSignal(search, c))

NextSearch ==
  \/ \E signal \in Signals : SearchWorkspace(signal)
  \/ \E c \in SearchCalls, n \in FileCounts : FilesFound(c, n)
  \/ \E c \in SearchCalls : ChunkSettled(c)
  \/ \E c \in SearchCalls : Yielded(c)
  \/ CancelSearch
  \/ \E c \in SearchCalls : AbortSignal(c)

SpecSearch == InitStores /\ [][NextSearch]_vars

(***************************************************************************)
(* SearchHistoryStore: the recent filters, kept as one array under a key   *)
(* of the workspace memento                                                *)
(***************************************************************************)
MAX_HISTORY_ITEMS == 20

\* the k-th filter the user searches for: by name, by path or by element,
\* in one of the three modes
HistoryFilter(k) ==
  [NoFilter EXCEPT !.mode = <<"contains", "regex", "glob">>[(k % 3) + 1],
                   !.nameMode = IF k % 2 = 0 THEN "glob" ELSE "none",
                   !.name = IF k % 3 = 0 THEN <<k>> ELSE <<>>,
                   !.arpath = IF k % 3 = 1 THEN <<SLASH, k>> ELSE <<>>,
                   !.element = IF k % 3 = 2 THEN <<k>> ELSE <<>>]

\* filters of the next call: one not used before, or again one used before
\* (the newest two, the two around the 20th place)
NextFilters(h) ==
  {HistoryFilter(k) : k \in {k \in {h.fresh + 1} : k <= MaxFilters}}
    \cup {HistoryFilter(k) : k \in {k \in {h.fresh, h.fresh - 1, h.fresh - MAX_HISTORY_ITEMS + 1,
                                           h.fresh - MAX_HISTORY_ITEMS} :
                                      k >= 1 /\ h.repeats < MaxRepeats}}

filtersEqual(a, b) ==
  /\ a.mode = b.mode
  /\ a.nameMode = b.nameMode
  /\ a.arpathMode = b.arpathMode
  /\ a.elementMode = b.elementMode
  /\ a.name = b.name
  /\ a.arpath = b.arpath
  /\ a.element = b.element

\* Array.findIndex: the first place that holds an equal filter, 0 for none
findIndex(list, filter) ==
  IF \E i \in DOMAIN list : filtersEqual(list[i].filter, filter)
  THEN CHOOSE i \in DOMAIN list :
         /\ filtersEqual(list[i].filter, filter)
         /\ \A j \in 1..(i - 1) : ~filtersEqual(list[j].filter, filter)
  ELSE 0

\* splice(index, 1)
RemoveAt(list, index) == SubSeq(list, 1, index - 1) \o SubSeq(list, index + 1, Len(list))

\* variant that leaves an older item with the same filter in the list
addSearch_NoDedupe(list, item) ==
  LET unshifted == <<item>> \o list
  IN IF Len(unshifted) > MAX_HISTORY_ITEMS THEN SubSeq(unshifted, 1, MAX_HISTORY_ITEMS)
     ELSE unshifted

\* addSearch after await getHistory(): what it makes of the array it was given
addSearch(list, item) ==
  LET existingIndex == findIndex(list, item.filter)
      spliced == IF existingIndex >= 1 THEN RemoveAt(list, existingIndex) ELSE list
      unshifted == <<item>> \o spliced
  IN IF Len(unshifted) > MAX_HISTORY_ITEMS THEN SubSeq(unshifted, 1, MAX_HISTORY_ITEMS)
     ELSE unshifted

\* memento.get(STORAGE_KEY, []): the stored array itself, or a new empty one
getHistory(h) ==
  IF h.stored = 0 THEN [arrays |-> Append(h.arrays, <<>>), ref |-> Len(h.arrays) + 1]
  ELSE [arrays |-> h.arrays, ref |-> h.stored]

\* arrays nothing refers to any more are left empty
Collect(h) ==
  [h EXCEPT !.arrays = [a \in DOMAIN @ |->
                          IF a = h.stored \/ \E p \in DOMAIN h.pending : h.pending[p].ref = a
                          THEN @[a] ELSE <<>>]]

\* the array stored under the key (none: the default, empty)
StoredHistory(h) == IF h.stored = 0 THEN <<>> ELSE h.arrays[h.stored]

HistoryStep(h) ==
  /\ history' = h
  /\ UNCHANGED <<coordinator, parser, query, search, bookmarks, optimized>>

\* addSearch(filter) up to await this.getHistory()
BeginAddSearch(filter) ==
  /\ history.pending # <<>> => history.overlaps < MaxOverlaps
  /\ LET got == getHistory(history)
         used == \E k \in 1..history.fresh : HistoryFilter(k) = filter
     IN HistoryStep([history EXCEPT
                       !.arrays = got.arrays,
                       !.pending = Append(@, [filter |-> filter, ref |-> got.ref,
                                              call |-> history.made + 1]),
                       !.made = @ + 1,
                       !.overlaps = IF history.pending # <<>> THEN @ + 1 ELSE @,
                       !.last = filter,
                       !.fresh = IF used THEN @ ELSE @ + 1,
                       !.repeats = IF used THEN @ + 1 ELSE @])

\* the continuation of the oldest waiting call, through memento.update
FinishAddSearch ==
  /\ history.pending # <<>>
  /\ LET call == Head(history.pending)
         item == [id |-> call.call, timestamp |-> call.call, filter |-> call.filter]
     IN HistoryStep(Collect([history EXCEPT
                               !.arrays[call.ref] = addSearch(@, item),
                               !.stored = call.ref,
                               !.pending = Tail(@)]))

NextHistory ==
  \/ \E filter \in NextFilters(history) : BeginAddSearch(filter)
  \/ FinishAddSearch

SpecHistory == InitStores /\ [][NextHistory]_vars

(***************************************************************************)
(* Properties                                                              *)
(***************************************************************************)
InFlight == {i \in Slots : tasks[i].phase = "parsing"}

\* C1: at any time at most one parseDocuments batch is in progress, whichever
\* operation requested it (timer-fired refresh, view switch, ensure-parsed
\* step of a path query, selection-triggered parse)
C1_OneBatchInFlight == Cardinality(InFlight) <= 1

\* C2: a refresh request (the timer callback) that arrives while a batch is in
\* flight starts no second batch, and when rebuildTree's batch completes with
\* requests pending, exactly one timer is armed and the pending flag is cleared
C2_RefreshCoalesced ==
  [][/\ (InFlight # {} /\ Cardinality(timers') < Cardinality(timers))
          => Cardinality({i \in Slots : tasks'[i].phase = "parsing"}) <= Cardinality(InFlight)
     /\ (parsePromise /\ ~parsePromise' /\ pendingRefresh)
          => (Cardinality(timers') = 1 /\ ~pendingRefresh')]_vars

\* C3: every cache entry records the version of the text snapshot its root was
\* parsed from, also when the document was edited while the parse was suspended
C3_VersionOfSnapshot ==
  \A i \in DOMAIN parsedDocuments : parsedDocuments[i].version = parsedDocuments[i].snapVersion

IndexedNodes(index, uri) ==
  {node \in UNION {Range(index[k]) : k \in DOMAIN index} : node.file = uri}

CurrentGen(uri) == MapGet(parsedDocuments, uri).root.oid.gen

\* C4: after a changed document went through deindex and index, the index holds
\* only nodes of its new tree; no node of an earlier tree remains under any key
C4_NoStaleNodes ==
  \A uri \in processed :
    \A node \in IndexedNodes(arpathIndex, uri) :
      MapHas(parsedDocuments, uri) /\ node.oid.gen = CurrentGen(uri)

IndexedPairs(index, uri) ==
  {<<k, node>> : k \in DOMAIN index, node \in IndexedNodes(index, uri)}
    \cap UNION {{<<k, index[k][i]>> : i \in DOMAIN index[k]} : k \in DOMAIN index}

\* C5: whenever another task can run, the index holds for each document the
\* entries of one tree only (the previous one or the new one, never a mixture
\* of old and new), and when they are of the new tree they are complete
C5_IndexAllOldOrAllNew ==
  \A uri \in Uris :
    LET gens == {node.oid.gen : node \in IndexedNodes(arpathIndex, uri)}
    IN /\ Cardinality(gens) <= 1
       /\ (MapHas(parsedDocuments, uri) /\ gens = {CurrentGen(uri)})
            => LET pairs == VariantPairs(MapGet(parsedDocuments, uri).root)
               IN IndexedPairs(arpathIndex, uri) = {pairs[i] : i \in DOMAIN pairs}

FullRebuild == rebuildArpathIndex(Me)

\* the index holds the same nodes as a full rebuild under every key (in any order)
IndexHoldsCachedNodes ==
  /\ DOMAIN arpathIndex = DOMAIN FullRebuild.arpathIndex
  /\ \A k \in DOMAIN arpathIndex : Range(arpathIndex[k]) = Range(FullRebuild.arpathIndex[k])

\* C6: after deindex(uri); index(uri) for a changed document, looking up any
\* path returns the same node as a lookup in an index rebuilt from scratch over
\* all cached documents, also for paths that occur in more than one document
C6_LookupMatchesFullRebuild ==
  (processed # {} /\ IndexHoldsCachedNodes)
    => \A k \in DOMAIN arpathIndex : findByArpath(Me, k) = findByArpath(FullRebuild, k)

EntriesOf(index, key, uri) == SelectSeq(IndexGet(index, key), LAMBDA node : node.file = uri)

\* C7: in every state of the index, deindex(uri) leaves the entries of every
\* other document as they are, in content and order, under every key,
\* including the keys both documents have entries under
C7_DeindexKeepsOthers ==
  \A uri \in Uris : \A other \in Uris \ {uri} :
    \A k \in DOMAIN arpathIndex :
      EntriesOf(removeDocumentFromIndex(Me, uri).arpathIndex, k, other) = EntriesOf(arpathIndex, k, other)

\* deindex(uri) removes the entries of uri under a key that also holds an
\* entry of another document
C7_Witness ==
  \E uri \in DOMAIN docArpathKeys : \E other \in Uris \ {uri} : \E k \in docArpathKeys[uri] :
    /\ EntriesOf(arpathIndex, k, uri) # <<>>
    /\ EntriesOf(arpathIndex, k, other) # <<>>
    /\ EntriesOf(removeDocumentFromIndex(Me, uri).arpathIndex, k, uri) = <<>>

\* C8: at most one debounce timer is armed, and it is the one refreshTimer
\* holds: scheduling while a timer is armed cancels the armed one, so after a
\* burst of schedule calls with no fire in between exactly one timer can fire
C8_SingleTimer ==
  /\ Cardinality(timers) <= 1
  /\ burst >= 1 => Cardinality(timers) = 1
  /\ refreshTimer = 0 => timers = {}
  /\ refreshTimer # 0 => {tm.h : tm \in timers} = {refreshTimer}

\* two or more schedule calls happened with no fire in between
C8_Witness == burst >= 2 /\ Cardinality(timers) = 1

SameOptions(x, y) ==
  /\ x.parseMode = y.parseMode
  /\ Range(x.nameTags) = Range(y.nameTags)
  /\ Range(x.nameTextTags) = Range(y.nameTextTags)

\* C9: after an operation that changed a document's active view completed
\* without a parse error, the cached tree of the document was parsed with the
\* naming options (nameTags, nameTextTags, parseMode) of the now-active view
C9_CacheMatchesActiveView ==
  \A uri \in viewDone :
    MapHas(parsedDocuments, uri)
      => SameOptions(CachedOptions(Me, uri), resolveParseOptions(customViewByUri[uri]))

\* C10: parseDocuments re-parses exactly the documents that have no entry or
\* whose version or effective options differ from the cached entry
C10_ReparseExactlyChanged ==
  \A d \in decisions :
    d.reparse <=> (~d.hasEntry \/ ~d.sameVersion \/ ~SameOptions(d.cachedOpts, d.options))

(***************************************************************************)
(* A batch run to its end from the current state                           *)
(***************************************************************************)
RECURSIVE RunBatch(_)
\* the batch r with every suspension of its parses resumed at once
RunBatch(r) == IF r.t.phase = "parsing" THEN RunBatch(parseDocumentsResume(r.s, r.t)) ELSE r

BatchResult(queue) == RunBatch(parseDocuments(Me, NewTask(Me, "rebuild", queue)))

\* the coordinator after the caller's loop over the batch's changed set
Settled(r) == updateChanged(r.s, r.t.changed, TRUE)

\* outcome of parsing the current text of uri under its current options
ParseOutcome(uri) ==
  parseArxmlDocument(Texts[docs[uri].text], uri,
                     [strict |-> resolveParseOptions(customViewByUri[uri]).parseMode = "strict",
                      nameTags |-> resolveParseOptions(customViewByUri[uri]).nameTags,
                      nameTextTags |-> resolveParseOptions(customViewByUri[uri]).nameTextTags],
                     nextGen[uri] + 1).kind

NeedsParse(uri) ==
  docs[uri].open /\ ~CacheIsCurrent(Me, uri, resolveParseOptions(customViewByUri[uri]))

SameEntry(m1, m2, uri) ==
  /\ MapHas(m1, uri) <=> MapHas(m2, uri)
  /\ MapHas(m1, uri) => MapGet(m1, uri) = MapGet(m2, uri)

\* C11: when the parse of one document of a batch fails, that document keeps
\* its cache entry and its index entries and is not in the changed set, and
\* the cache, the changed set and the index come out as they do for the
\* batch without that document, wherever in the batch the document stands
C11_FailureIsIsolated ==
  \A u \in Uris : \A v \in Uris \ {u} :
    (NeedsParse(u) /\ ParseOutcome(u) = "error" /\ docs[v].open) =>
      \A queue \in {<<u, v>>, <<v, u>>} :
        /\ SameEntry(BatchResult(queue).s.parsedDocuments, parsedDocuments, u)
        /\ u \notin Range(BatchResult(queue).t.changed)
        /\ \A k \in DOMAIN arpathIndex \cup DOMAIN Settled(BatchResult(queue)).arpathIndex :
              EntriesOf(Settled(BatchResult(queue)).arpathIndex, k, u) = EntriesOf(arpathIndex, k, u)
        /\ BatchResult(queue).s.parsedDocuments = BatchResult(<<v>>).s.parsedDocuments
        /\ BatchResult(queue).t.changed = BatchResult(<<v>>).t.changed
        /\ Settled(BatchResult(queue)).arpathIndex = Settled(BatchResult(<<v>>)).arpathIndex

\* a failing document with a cache entry and index entries stands in a batch
\* with a document that gets a new tree
C11_Witness ==
  \E u \in Uris : \E v \in Uris \ {u} :
    /\ NeedsParse(u) /\ ParseOutcome(u) = "error"
    /\ MapHas(parsedDocuments, u)
    /\ \E k \in DOMAIN arpathIndex : EntriesOf(arpathIndex, k, u) # <<>>
    /\ NeedsParse(v) /\ ParseOutcome(v) = "root"
    /\ BatchResult(<<u, v>>).t.changed = <<v>>
    /\ BatchResult(<<u, v>>).t.hadError

\* C12: when the parse of a document that has a cache entry returns absent,
\* the batch removes the entry and has the document in its changed set
C12_AbsentRemovesEntry ==
  \A u \in Uris :
    (NeedsParse(u) /\ ParseOutcome(u) = "absent" /\ MapHas(parsedDocuments, u)) =>
      \A queue \in {q \in {<<u>>, <<"a", "b">>} : \A i \in DOMAIN q : docs[q[i]].open} :
        /\ ~MapHas(BatchResult(queue).s.parsedDocuments, u)
        /\ u \in Range(BatchResult(queue).t.changed)

C12_Witness ==
  \E u \in Uris :
    /\ NeedsParse(u) /\ ParseOutcome(u) = "absent" /\ MapHas(parsedDocuments, u)
    /\ ~MapHas(BatchResult(<<u>>).s.parsedDocuments, u)
    /\ BatchResult(<<u>>).t.changed = <<u>>

(***************************************************************************)
(* The parser                                                              *)
(***************************************************************************)
\* the handler state reached event by event is the one the whole call computes
ParserAgrees ==
  parser.status = "done" /\ parser.result = "root" =>
    parseArxmlDocument(parser.text, "a", parser.options, 1).root
      = BuildNode(parser.ps.arena, 1, "a", 1)

\* C13: in lenient mode a call during which the parser reported an error
\* returns a tree
C13_LenientReturnsTree ==
  (parser.status = "done" /\ ~parser.options.strict /\ parser.ps.parseError)
    => parser.result = "root"

Arena == parser.ps.arena

\* C14: the path of every node but the root is its parent's path, a slash
\* and its name, and the path of the root is empty
C14_PathIsParentPathAndName ==
  /\ Arena[1].arpath = <<>>
  /\ \A i \in 2..Len(Arena) :
       Arena[i].arpath = Arena[Arena[i].parent].arpath \o <<SLASH>> \o Arena[i].name

\* a returned tree with a node two levels down and an element named by a
\* name tag that is not its first child
C14_Witness ==
  /\ parser.status = "done" /\ parser.result = "root"
  /\ \E i \in 2..Len(Arena) : Arena[i].parent # 1 /\ Len(Arena[i].arpath) = 4

\* The elements of the input that have a closed direct name-tag child with
\* non-empty trimmed character data, each once, as <<element, name>> with the
\* name of the first such child, in the order in which those children close.
\* stack: the open elements as [tag, txt, named]
RECURSIVE NamedElements(_, _, _)
NamedElements(text, stack, nameTags) ==
  IF text = <<>> THEN <<>>
  ELSE IF Head(text).t = "open"
       THEN NamedElements(Tail(text),
                          Append(stack, [tag |-> Head(text).tag, txt |-> <<>>, named |-> FALSE]),
                          nameTags)
  ELSE IF Head(text).t = "text" /\ stack # <<>>
       THEN NamedElements(Tail(text), [stack EXCEPT ![Len(stack)].txt = @ \o Head(text).v], nameTags)
  ELSE IF Head(text).t = "close" /\ stack # <<>>
       THEN IF /\ Last(stack).tag \in nameTags
               /\ Len(stack) > 1
               /\ Trim(Last(stack).txt) # <<>>
               /\ ~stack[Len(stack) - 1].named
            THEN <<<<stack[Len(stack) - 1].tag, Trim(Last(stack).txt)>>>>
                 \o NamedElements(Tail(text),
                                   [Front(stack) EXCEPT ![Len(stack) - 1].named = TRUE], nameTags)
            ELSE NamedElements(Tail(text), Front(stack), nameTags)
  ELSE NamedElements(Tail(text), stack, nameTags)

\* C16: the nodes of the tree are the elements that have a direct name-tag
\* child with non-empty trimmed text, one node for each, named by the first
\* such child
C16_NodeIffNamed ==
  [i \in 1..(Len(Arena) - 1) |-> <<Arena[i + 1].element, Arena[i + 1].name>>]
    = NamedElements(parser.text, <<>>, Range(parser.options.nameTags))

(***************************************************************************)
(* Trees                                                                   *)
(***************************************************************************)
\* nodes[1] is the root
Rooted(nodes) == nodes[1].parent = NoOid

EachObjectOnce(nodes) == \A i, j \in DOMAIN nodes : nodes[i].oid = nodes[j].oid => i = j

\* the places where the node nodes[n] is listed as a child of the object its
\* parent link points to
ListedAt(nodes, n) ==
  {<<m, k>> \in (DOMAIN nodes) \X (1..Len(nodes)) :
     /\ k \in DOMAIN nodes[m].children
     /\ nodes[m].oid = nodes[n].parent
     /\ nodes[m].children[k].oid = nodes[n].oid}

WellFormedTree(root) ==
  /\ Rooted(StackOrder(root))
  /\ EachObjectOnce(StackOrder(root))
  /\ \A n \in 2..Len(StackOrder(root)) : Cardinality(ListedAt(StackOrder(root), n)) = 1

\* C15: every cached tree (as the parser built it) and every projected tree
\* has a root without parent, holds each node object once, and every other
\* node's parent link points to the one node of the tree that lists it, once
C15_TreesWellFormed ==
  /\ \A i \in DOMAIN parsedDocuments : WellFormedTree(parsedDocuments[i].root)
  /\ \A uri \in DOMAIN filteredRootsByUri : WellFormedTree(filteredRootsByUri[uri])

\* a cached tree three levels deep and a projection of it that keeps nodes
\* two levels below its root
C15_Witness ==
  /\ MapHas(parsedDocuments, "a")
  /\ "a" \in DOMAIN filteredRootsByUri
  /\ \E n \in Range(StackOrder(MapGet(parsedDocuments, "a").root)) : Len(Parts(n.arpath)) = 3
  /\ \E n \in Range(StackOrder(filteredRootsByUri["a"])) : Len(Parts(n.arpath)) >= 2
  /\ Len(StackOrder(filteredRootsByUri["a"])) < Len(StackOrder(MapGet(parsedDocuments, "a").root))

Oids(root) == {n.oid : n \in Range(StackOrder(root))}

CachedOids(m) == UNION {Oids(m[i].root) : i \in DOMAIN m}

\* C19: by any step, no projected tree holds a node object of a cached tree,
\* and a tree that stays in the cache stays as it was, in every field, child
\* list and parent link
C19_ProjectionLeavesCache ==
  [][/\ \A uri \in DOMAIN filteredRootsByUri' :
          Oids(filteredRootsByUri'[uri]) \cap CachedOids(parsedDocuments') = {}
     /\ \A i \in DOMAIN parsedDocuments : \A j \in DOMAIN parsedDocuments' :
          parsedDocuments[i].root.oid = parsedDocuments'[j].root.oid
            => parsedDocuments[i].root = parsedDocuments'[j].root]_vars

\* a view and a filter are both in force on a cached tree with nested nodes,
\* and the projection differs from it
C19_Witness ==
  /\ MapHas(parsedDocuments, "a")
  /\ customViewByUri["a"] # NoView
  /\ "a" \in DOMAIN filterByUri
  /\ "a" \in DOMAIN filteredRootsByUri
  /\ Len(StackOrder(MapGet(parsedDocuments, "a").root)) >= 4
  /\ Len(StackOrder(filteredRootsByUri["a"])) >= 2

\* the tree the filter of uri is applied to: the view projection if there is
\* one, else the cached tree
FilterSource(uri) ==
  IF customViewByUri[uri] # NoView
     /\ buildFilteredTree(MapGet(parsedDocuments, uri).root, customViewByUri[uri], NoOid) # <<>>
  THEN buildFilteredTree(MapGet(parsedDocuments, uri).root, customViewByUri[uri], NoOid)[1]
  ELSE MapGet(parsedDocuments, uri).root

FilterProjection(uri) == buildFilteredTreeWithFilter(FilterSource(uri), filterByUri[uri], NoOid)

RECURSIVE MatchesBelow(_, _)
\* the node or one of its descendants matches
MatchesBelow(node, filter) ==
  \/ matchesTreeFilter(node, filter)
  \/ \E k \in DOMAIN node.children : MatchesBelow(node.children[k], filter)

\* which node of the parsed tree a node object stands for, and where it hangs
Place(node) == [i |-> node.oid.i, under |-> node.parent.i]

ProjectedNodes(opt) == IF opt = <<>> THEN {} ELSE Range(StackOrder(opt[1]))

\* C20: the filter projection holds exactly the nodes of its source tree that
\* match or have a matching descendant, each under the node it hangs under
\* in the source tree
C20_FilterKeepsMatchesAndAncestors ==
  \A uri \in DOMAIN filterByUri :
    MapHas(parsedDocuments, uri) =>
      {Place(n) : n \in ProjectedNodes(FilterProjection(uri))}
        = {Place(n) : n \in {x \in Range(StackOrder(FilterSource(uri))) :
                               MatchesBelow(x, filterByUri[uri])}}

\* the filter matches only a node three levels down; the projection shown is
\* the chain from the root to that node, and a sibling on the way is pruned
C20_Witness ==
  /\ "a" \in DOMAIN filterByUri /\ MapHas(parsedDocuments, "a")
  /\ customViewByUri["a"] = NoView
  /\ FilterProjection("a") = <<filteredRootsByUri["a"]>>
  /\ {n.arpath : n \in {x \in Range(StackOrder(FilterSource("a"))) :
                           matchesTreeFilter(x, filterByUri["a"])}}
       = {<<"/", "P", "/", "C", "/", "Q">>}
  /\ Len(StackOrder(filteredRootsByUri["a"])) = 4
  /\ Len(StackOrder(FilterSource("a"))) = 5

\* C17: putting a normalized path through normalizeArpath again gives the
\* same path
C17_NormalizeIdempotent == query.passes = 2 => query.value = normalizeArpath(query.target)

RECURSIVE StringsUpTo(_, _)
\* the strings of at most n of the given characters
StringsUpTo(chars, n) ==
  IF n = 0 THEN {<<>>}
  ELSE StringsUpTo(chars, n - 1)
         \cup {Append(str, c) : str \in {x \in StringsUpTo(chars, n - 1) : Len(x) = n - 1}, c \in chars}

Queries == StringsUpTo({SLASH, "a", "P", " "}, MaxQueryLen)

\* the same segments, whatever slashes lead, follow or repeat
OnlySlashesDiffer(q1, q2) == Parts(q1) = Parts(q2)

\* C18: on the same documents, two queries that differ only in a leading
\* slash, a trailing slash or repeated slashes find the same node, or both
\* find none
C18_CosmeticQueriesAgree ==
  \A q1, q2 \in Queries :
    OnlySlashesDiffer(q1, q2) => lookupNode(Me, q1) = lookupNode(Me, q2)

RECURSIVE Shape(_)
\* a tree without the identities of its node objects: what each node shows,
\* and its children in order
Shape(node) ==
  [name |-> node.name, arpath |-> node.arpath, element |-> node.element,
   children |-> [i \in DOMAIN node.children |-> Shape(node.children[i])]]

\* the filter of uri applied to its own result
Reprojection(uri) ==
  IF FilterProjection(uri) = <<>> THEN <<>>
  ELSE buildFilteredTreeWithFilter(FilterProjection(uri)[1], filterByUri[uri], NoOid)

\* C21: a filter projection projected again with the same filter has the
\* same number of nodes, the same shape and the same order of nodes
C21_FilterProjectionStable ==
  \A uri \in DOMAIN filterByUri :
    (MapHas(parsedDocuments, uri) /\ FilterProjection(uri) # <<>>)
      => /\ Reprojection(uri) # <<>>
         /\ Len(StackOrder(Reprojection(uri)[1])) = Len(StackOrder(FilterProjection(uri)[1]))
         /\ Shape(Reprojection(uri)[1]) = Shape(FilterProjection(uri)[1])

\* the displayed projection dropped a node, kept two children under one
\* node, and projecting it again gives the same shape
C21_Witness ==
  /\ "a" \in DOMAIN filterByUri /\ MapHas(parsedDocuments, "a")
  /\ FilterProjection("a") = <<filteredRootsByUri["a"]>>
  /\ Len(StackOrder(filteredRootsByUri["a"])) < Len(StackOrder(FilterSource("a")))
  /\ \E n \in Range(StackOrder(filteredRootsByUri["a"])) : Len(n.children) = 2
  /\ Shape(Reprojection("a")[1]) = Shape(filteredRootsByUri["a"])

\* what rebuildFilteredRootForDocument computes before it stores: the view
\* projection, then the filter on it (or on the cached tree)
Projected(uri) ==
  filterStep(IF customViewByUri[uri].id # 0
             THEN buildFilteredTree(MapGet(parsedDocuments, uri).root, customViewByUri[uri], NoOid)
             ELSE <<MapGet(parsedDocuments, uri).root>>,
             MapGet(parsedDocuments, uri).root,
             uri \in DOMAIN filterByUri,
             IF uri \in DOMAIN filterByUri THEN filterByUri[uri] ELSE <<>>)

Stored(uri) == rebuildFilteredRootForDocument(Me, uri).filteredRootsByUri

\* C22: for a cached document with a view or a filter in force whose
\* projection keeps no node, rebuildFilteredRootForDocument stores a root
\* with the name, path, element kind and file of the cached root and no
\* children
C22_EmptyProjectionStoresEmptyRoot ==
  \A uri \in Uris :
    (/\ MapHas(parsedDocuments, uri)
     /\ (customViewByUri[uri].id # 0 \/ uri \in DOMAIN filterByUri)
     /\ Projected(uri) = <<>>)
      => /\ uri \in DOMAIN Stored(uri)
         /\ Shape(Stored(uri)[uri])
              = [Shape(MapGet(parsedDocuments, uri).root) EXCEPT !.children = <<>>]
         /\ Stored(uri)[uri].file = MapGet(parsedDocuments, uri).root.file
         /\ Stored(uri)[uri].uuid = MapGet(parsedDocuments, uri).root.uuid

\* a filter that matches nothing is in force on a cached tree with nodes,
\* and the root on display is the one stored for it
C22_Witness ==
  /\ MapHas(parsedDocuments, "a") /\ "a" \in DOMAIN filterByUri
  /\ Projected("a") = <<>>
  /\ MapGet(parsedDocuments, "a").root.children # <<>>
  /\ "a" \in DOMAIN filteredRootsByUri
  /\ filteredRootsByUri["a"] = Stored("a")["a"]
  /\ filteredRootsByUri["a"].children = <<>>

\* the step armed, re-armed or cancelled the debounce timer
TouchesTimer == timers' # timers \/ refreshTimer' # refreshTimer \/ burst' # burst

\* C23: every armed timer runs rebuildTree when it fires, so: under the
\* manual policy a step that arms the timer is a refresh request, never an
\* edit, a save or a change of the active editor
C23_ManualRefreshOnlyOnRequest ==
  [][(refreshMode = "manual" /\ timers' # timers /\ refreshTimer' # 0) => refresh]_vars

\* C24: an edit touches the debounce timer only under the onChange policy, a
\* save only under the onSave policy; under onSave an edit leaves the timer
\* as it is
C24_PolicyDecidesScheduling ==
  [][/\ ((\E uri \in Uris, text \in TextIds : EditDocument(uri, text)) /\ TouchesTimer)
          => refreshMode = "onChange"
     /\ ((\E uri \in Uris : SaveDocument(uri)) /\ TouchesTimer)
          => refreshMode = "onSave"
     /\ (refreshMode = "onSave" /\ docs' # docs) => ~TouchesTimer]_vars

\* under onSave a document was edited and no timer is armed
C24_Witness ==
  /\ refreshMode = "onSave"
  /\ \E uri \in Uris : docs[uri].version >= 2
  /\ timers = {} /\ refreshTimer = 0 /\ burst = 0

\* a node of the trees below
Package(root, children) ==
  [name |-> <<"P">>, arpath |-> <<SLASH, "P">>, element |-> "PKG", file |-> root.file,
   uuid |-> NoUuid, oid |-> [root.oid EXCEPT !.i = 2], parent |-> root.oid, children |-> children]

RECURSIVE Grove(_, _)
\* widths[1] packages, each with widths[2] packages, and so on down
Grove(root, widths) ==
  IF widths = <<>> THEN <<>>
  ELSE [k \in 1..Head(widths) |-> Package(root, Grove(root, Tail(widths)))]

\* 10 + 10 * 9 + 10 * 9 * 10 = 1000 = LARGE_TREE_THRESHOLD packages
GroveWidths == <<10, 9, 10>>

\* the coordinator with the tracked document's cached tree grown to
\* LARGE_TREE_THRESHOLD nodes below the root, and extra more
WithLargeTree(extra) ==
  [Me EXCEPT !.parsedDocuments =
     MapSet(@, [MapGet(@, arxmlDocument) EXCEPT
                  !.root.children = Grove(MapGet(Me.parsedDocuments, arxmlDocument).root, GroveWidths)
                                      \o Grove(MapGet(Me.parsedDocuments, arxmlDocument).root, <<extra>>)])]

\* the coordinator as it is, and with a tree at and just above the threshold
TreeCases == {Me, WithLargeTree(0), WithLargeTree(1)}

\* the range of arxmlTree.debounceDelay and its default
BaseDelays == {100, DebounceDelay, 5000}

Tracked(s) == MapGet(s.parsedDocuments, s.arxmlDocument).root

\* the timer a schedule call arms
Armed(s, forceImmediate) ==
  {tm.delay : tm \in {x \in scheduleRefresh(s, forceImmediate).timers : x.h = scheduleRefresh(s, forceImmediate).refreshTimer}}

\* the delay is 0 when forced, twice the base delay when large, else the base delay
DelayIs(s, large) ==
  /\ \A base \in BaseDelays, adaptive \in BOOLEAN :
       /\ refreshDelay(s, TRUE, base, adaptive) = 0
       /\ refreshDelay(s, FALSE, base, adaptive) = IF adaptive /\ large THEN 2 * base ELSE base
  /\ scheduleRefresh(s, FALSE).ok
       => /\ Armed(s, TRUE) = {0}
          /\ Armed(s, FALSE) = {IF AdaptiveDebounce /\ large THEN 2 * DebounceDelay ELSE DebounceDelay}

QueryStep ==
  \/ findNodeWithArPath
  \/ \E i \in Slots : tasks[i].kind = "ensure" /\ ParseStep(i)

Considered ==
  IF refreshMode = "onChange" THEN {u \in Uris : docs[u].open}
  ELSE {getActiveArxmlDocument(Me)} \ {NoDoc}

\* the cache holds the document at its present version, parsed with the
\* options of its view
UpToDate(u) ==
  /\ MapHas(parsedDocuments, u)
  /\ MapGet(parsedDocuments, u).version = docs[u].version
  /\ MapGet(parsedDocuments, u).parseMode = resolveParseOptions(customViewByUri[u]).parseMode
  /\ sameList(MapGet(parsedDocuments, u).nameTags, resolveParseOptions(customViewByUri[u]).nameTags)
  /\ sameList(MapGet(parsedDocuments, u).nameTextTags,
              resolveParseOptions(customViewByUri[u]).nameTextTags)

\* a path query finds something to bring up to date
QueryHasWork ==
  \/ \E u \in Considered : ~UpToDate(u)
  \/ Considered # {} /\ DOMAIN arpathIndex = {} /\ parsedDocuments # <<>>

C29_BookmarksByArpath ==
  /\ \A i, j \in DOMAIN bookmarks.list :
       bookmarks.list[i].arpath = bookmarks.list[j].arpath => i = j
  /\ \A arpath \in BookmarkPaths :
       (\E i \in DOMAIN bookmarks.list : bookmarks.list[i].arpath = arpath)
         <=> (arpath \in DOMAIN bookmarks.lastCall /\ bookmarks.lastCall[arpath] = "add")
  /\ bookmarks.stored = bookmarks.list

\* bookmarks were added and one was removed again; two are kept
C29_Witness ==
  /\ Len(bookmarks.list) = 2
  /\ \E arpath \in DOMAIN bookmarks.lastCall : bookmarks.lastCall[arpath] = "remove"
  /\ bookmarks.stored = bookmarks.list

\* C27: a workspace search requested while a previous one is still running
\* cancels the previous search (its controller is aborted) and is itself
\* carried out rather than turned away
C27_NewSearchCancelsPrevious ==
  \A c \in SearchCalls :
    LET call == search.calls[c]
    IN call.prev # 0 =>
         /\ search.aborted[search.calls[call.prev].ctl]
         /\ call.outcome # "busy"

\* C28: a workspace search whose cancellation was signalled, by cancelSearch
\* or by its abort signal, before it ended never ends by returning a result
C28_SignalledSearchNeverReturns ==
  \A c \in SearchCalls :
    search.calls[c].signalled => search.calls[c].outcome # "returned"

\* C30: the stored search history holds at most 20 items, no two of them
\* with the same filter, newer items before older ones; once no call of
\* addSearch is waiting, the item of the latest call is at position 0
C30_HistoryBoundedDistinctNewestFirst ==
  LET list == StoredHistory(history)
  IN /\ Len(list) <= MAX_HISTORY_ITEMS
     /\ \A i, j \in DOMAIN list : i # j => list[i].filter # list[j].filter
     /\ \A i, j \in DOMAIN list : i < j => list[i].timestamp > list[j].timestamp
     /\ (history.pending = <<>> /\ history.made > 0) =>
          /\ Len(list) >= 1
          /\ list[1].filter = history.last
          /\ list[1].id = history.made

\* a full history from which older items were dropped, with a filter that
\* was searched for before put back at the front
C30_Witness ==
  LET list == StoredHistory(history)
  IN /\ history.pending = <<>>
     /\ Len(list) = MAX_HISTORY_ITEMS
     /\ history.fresh > MAX_HISTORY_ITEMS
     /\ history.repeats >= 1
     /\ \E k \in 1..(history.fresh - 1) : list[1].filter = HistoryFilter(k)
     /\ \E i \in DOMAIN list : list[i].filter = HistoryFilter(history.fresh)

\* nothing armed, in flight or pending: the event loop has nothing left to run
\* for the coordinator, and without a further event it stays as it is
Idle ==
  /\ timers = {}
  /\ InFlight = {}
  /\ ~parsePromise
  /\ ~pendingRefresh

\* the tree cached for the tracked document was parsed from the text the
\* document has now
TrackedIsFresh ==
  /\ MapHas(parsedDocuments, arxmlDocument)
  /\ MapGet(parsedDocuments, arxmlDocument).snapVersion = docs[arxmlDocument].version

\* C31: under the onChange policy, when the coordinator has come back to idle
\* after the edits of the tracked document (those made while a parse of it was
\* in flight included), the cache holds a tree parsed from the final text of
\* the document
C31_EditDuringParseSettles ==
  (refreshMode = "onChange" /\ arxmlDocument # NoDoc /\ Idle) => TrackedIsFresh

\* C32: a stored projected root belongs to a cached document and every node
\* of it was copied from the tree the cache holds for that document now,
\* whichever operation replaced or removed the cache entry
C32_ProjectionOfCurrentTree ==
  \A uri \in DOMAIN filteredRootsByUri :
    /\ MapHas(parsedDocuments, uri)
    /\ \A n \in Range(StackOrder(filteredRootsByUri[uri])) :
         n.oid.gen = MapGet(parsedDocuments, uri).root.oid.gen

\* C33: while the cache holds no entry for a document, the index holds no
\* node of that document under any key
C33_UncachedNotIndexed ==
  \A uri \in Uris :
    ~MapHas(parsedDocuments, uri) => IndexedNodes(arpathIndex, uri) = {}

\* one document is cached and the index holds exactly its entries
SingleDocumentIndexed ==
  /\ Len(parsedDocuments) = 1
  /\ arpathIndex = FullRebuild.arpathIndex

DistinctPaths(root) ==
  \A i, j \in DOMAIN StackOrder(root) :
    i # j => StackOrder(root)[i].arpath # StackOrder(root)[j].arpath

\* C34: with a single document indexed whose nodes have pairwise distinct
\* paths, findByArpath of a node's own path returns that node
C34_OwnPathFindsNode ==
  (SingleDocumentIndexed /\ DistinctPaths(parsedDocuments[1].root))
    => \A node \in Range(StackOrder(parsedDocuments[1].root)) :
         findByArpath(Me, node.arpath) = <<NodeRef(node)>>

\* findNodeWithArPath up to the raw-text fallback: the index and tree scan of
\* findByArpath, then walkPath over the root nodes
structuredLookup(s, targetLabel) ==
  LET normalized == normalizeArpath(targetLabel)
      direct == findByArpath(s, normalized)
      labels == SelectSeq(SplitSlash(normalized, <<>>), LAMBDA label : Trim(label) # <<>>)
      walks == Flatten([i \in DOMAIN getRootNodes(s) |-> walkPath(getRootNodes(s)[i], labels)])
  IN IF direct # <<>> THEN direct
     ELSE IF walks # <<>> THEN <<NodeRef(walks[1])>>
     ELSE <<>>

PathQueries == StringsUpTo({SLASH, "P", "C", "Q"}, MaxQueryLen)

\* C35: a node the structured lookup returns has a path variant equal to a
\* variant of the normalized query
C35_LookupMatchesByVariant ==
  \A q \in PathQueries :
    \A found \in Range(structuredLookup(Me, q)) :
      Range(buildArpathVariants(found.arpath)) \cap Range(buildArpathVariants(normalizeArpath(q))) # {}

\* the nodes of the cached tree of uri that its active view retains
ViewRetained(uri) ==
  LET base == buildFilteredTree(MapGet(parsedDocuments, uri).root, customViewByUri[uri], NoOid)
  IN IF base = <<>> THEN {} ELSE {[n.oid EXCEPT !.copy = 0] : n \in Range(StackOrder(base[1]))}

ViewAndFilterShown(uri) ==
  /\ uri \in DOMAIN filteredRootsByUri
  /\ MapHas(parsedDocuments, uri)
  /\ customViewByUri[uri].id # 0
  /\ uri \in DOMAIN filterByUri
  /\ InFlight = {}
  /\ filteredRootsByUri[uri] = Stored(uri)[uri]

\* C36: with a view and a filter active, every node of the stored projected
\* tree is retained by the view projection, and when the view retains nothing
\* the stored tree is the empty root
C36_FilterWithinView ==
  \A uri \in Uris :
    ViewAndFilterShown(uri) =>
      IF ViewRetained(uri) = {}
      THEN filteredRootsByUri[uri].children = <<>>
      ELSE \A n \in Range(StackOrder(filteredRootsByUri[uri])) :
             [n.oid EXCEPT !.copy = 0] \in ViewRetained(uri)

\* the nodes produced by the elements that are still open, outermost first
OpenNodes(ps) ==
  SelectSeq([i \in DOMAIN ps.elementStack |-> ps.elementStack[i].node], LAMBDA n : n # 0)

WellFormedSoFar(text) == \A i \in DOMAIN text : text[i].t \notin {"bad", "cut"}

\* C37: while well-formed markup is parsed, the active-parent stack holds the
\* root and the nodes of the elements still open, so that it holds only the
\* root once every element is closed
C37_StackHoldsOpenNodes ==
  WellFormedSoFar(parser.text) => parser.ps.arNodeStack = <<1>> \o OpenNodes(parser.ps)

\* the roots the tree view shows
ShownRoots == Range(getRootNodes(Me))

\* the object a copy was made of
Original(oid) == [oid EXCEPT !.copy = 0]

\* C38: the children the optimized provider returns from its cache for a
\* shown root are nodes of that root's document and of the tree now cached
\* for it
C38_CachedChildrenOfCurrentTree ==
  \A node \in ShownRoots :
    \A chunk \in Range(childrenReturned(Me, optimized, node)) :
      \A child \in Range(chunk) :
        /\ child.oid.uri = node.oid.uri
        /\ child.oid.gen = MapGet(parsedDocuments, node.file).root.oid.gen

\* a shown root of a projection that is up to date, expanded through the
\* optimized provider
ExpandsOptimized(node) ==
  /\ node.file \in DOMAIN filteredRootsByUri
  /\ filteredRootsByUri[node.file] = Stored(node.file)[node.file]
  /\ shouldUseOptimizedProvider(node, getCurrentFilter(Me))

\* C39: the chunk the optimized provider loads for a large node of the
\* projected tree lists the node's first CHUNK_SIZE children, in their order,
\* each once
C39_ChunkIsProjectedChildren ==
  \A node \in ShownRoots :
    ExpandsOptimized(node) =>
      LET chunk == loadChildrenChunk(node, getCurrentFilter(Me), 0, CHUNK_SIZE)
      IN [i \in DOMAIN chunk |-> Original(chunk[i].oid)]
           = [i \in 1..Min2(CHUNK_SIZE, Len(node.children)) |-> Original(node.children[i].oid)]

RecordedKeys(s, uri) == IF uri \in DOMAIN s.docArpathKeys THEN s.docArpathKeys[uri] ELSE {}

KeysHolding(s, uri) ==
  {k \in DOMAIN s.arpathIndex : \E i \in DOMAIN s.arpathIndex[k] : s.arpathIndex[k][i].file = uri}

\* C40: for every document the recorded key set docArpathKeys[uri] is exactly
\* the set of index keys whose node list holds a node of that document, in
\* every state the incremental updates and the full rebuild leave behind
C40_RecordedKeysMatchIndex ==
  \A uri \in Uris : RecordedKeys(Me, uri) = KeysHolding(Me, uri)

============================================================================
